---- MODULE Spec2Model ----
(***************************************************************************)
(* Minesweeper with auto-solver: the AdvancedMinesweeper game object and   *)
(* its MinesweeperSolver, as a state machine.  One action per event        *)
(* handler (cell click, right click, timer tick, reset, difficulty change, *)
(* solver start / stop / step / interval tick, modal dismissal).           *)
(*                                                                         *)
(* The handlers are sequential code that calls other methods, so every     *)
(* method is an operator from a game record g (the object's fields) to the *)
(* game record after the call; an action applies the whole handler.        *)
(* The record has four fields that are no fields of the object: stateLog,  *)
(* the values assigned to this.gameState since the handler began, in       *)
(* order; placeMinesCalls, the calls of placeMines since it began;         *)
(* revealCellCalls, the calls of revealCell since it began; and revealLog, *)
(* the cells revealCell marked revealed since it began, in order.          *)
(*                                                                         *)
(* The difficulty table keeps the three keys of the program but its boards *)
(* are scaled down (the program's are 9x9/10, 16x16/40 and 16x30/99) so    *)
(* that the reachable states can be enumerated.  Spec follows a player who *)
(* uses the difficulty buttons of Played; SpecAll follows every button;    *)
(* SpecHard follows a player of the hard board (the one board with three   *)
(* rows, which the pattern matcher needs).                                 *)
(***************************************************************************)
EXTENDS Integers, Sequences, FiniteSets, TLC

VARIABLES
    currentDifficulty,  \* this.currentDifficulty
    board,              \* this.board: cell <<row, col>> -> cell record
    gameState,          \* this.gameState: "ready" | "playing" | "won" | "lost"
    timer,              \* this.timer
    timerInterval,      \* this.timerInterval: TRUE when it holds a handle, FALSE when null
    firstClick,         \* this.firstClick
    flagCount,          \* this.flagCount
    solverRunning,      \* this.solverRunning
    solverInterval,     \* this.solverInterval: TRUE when it holds a handle, FALSE when null
    solverStats,        \* this.solverStats
    startBtnDisabled,   \* this.solverStartBtn.disabled
    stopBtnDisabled,    \* this.solverStopBtn.disabled
    stepBtnDisabled,    \* this.solverStepBtn.disabled
    modalOpen,          \* the player-name modal is shown (class 'hidden' removed)
    clockTimers,        \* number of live setInterval timers created by startTimer
    solverTimers        \* number of live setInterval timers created by startSolver

vars == <<currentDifficulty, board, gameState, timer, timerInterval, firstClick,
          flagCount, solverRunning, solverInterval, solverStats, startBtnDisabled,
          stopBtnDisabled, stepBtnDisabled, modalOpen, clockTimers, solverTimers>>

\* Largest value the game clock is followed to (the program's clock is unbounded).
MaxTimer == 1

\* The player places a flag by hand only while fewer than MaxFlags cells are flagged.
MaxFlags == 2

\* this.difficulties, with scaled-down boards.
difficulties ==
    [easy   |-> [rows |-> 2, cols |-> 3, mines |-> 2],
     medium |-> [rows |-> 1, cols |-> 5, mines |-> 1],
     hard   |-> [rows |-> 3, cols |-> 3, mines |-> 2]]

\* The keys a difficulty button can carry: the three of the table and an unknown one.
DifficultyRequests == DOMAIN difficulties \cup {"expert"}

\* The difficulty buttons the player of Spec clicks.
Played == {"easy", "medium", "expert"}

\* const config = this.difficulties[this.currentDifficulty]
Config(g) == difficulties[g.currentDifficulty]

\* The coordinates of the grid of a configuration.
Cells(cfg) == (0 .. cfg.rows - 1) \X (0 .. cfg.cols - 1)

\* The order of "for row ... for col ..." over the grid.
CellSeq(cfg) ==
    [k \in 1 .. cfg.rows * cfg.cols |-> <<(k - 1) \div cfg.cols, (k - 1) % cfg.cols>>]

\* The order of "for i = -1..1, for j = -1..1".
Offsets ==
    << <<-1, -1>>, <<-1, 0>>, <<-1, 1>>,
       << 0, -1>>, << 0, 0>>, << 0, 1>>,
       << 1, -1>>, << 1, 0>>, << 1, 1>> >>

\* newRow >= 0 && newRow < config.rows && newCol >= 0 && newCol < config.cols
InGrid(cfg, r, c) == r >= 0 /\ r < cfg.rows /\ c >= 0 /\ c < cfg.cols

\* createBoard: every cell hidden, unflagged, no mine, count 0.
createBoard(g) ==
    [g EXCEPT !.board =
        [cell \in Cells(Config(g)) |->
            [isMine |-> FALSE, isRevealed |-> FALSE, isFlagged |-> FALSE,
             neighborMines |-> 0]]]

\* calculateNeighborMines with both offset loops ending one short ("< 1" for
\* "<= 1"): only the offsets -1 and 0 are visited.
calculateNeighborMinesShortLoop(g) ==
    LET cfg == Config(g)
        count(cell) ==
            Cardinality({k \in DOMAIN Offsets :
                LET newRow == cell[1] + Offsets[k][1]
                    newCol == cell[2] + Offsets[k][2]
                IN  /\ Offsets[k][1] < 1 /\ Offsets[k][2] < 1
                    /\ InGrid(cfg, newRow, newCol) /\ g.board[<<newRow, newCol>>].isMine})
    IN  [g EXCEPT !.board =
            [cell \in DOMAIN g.board |->
                IF ~g.board[cell].isMine
                THEN [g.board[cell] EXCEPT !.neighborMines = count(cell)]
                ELSE g.board[cell]]]

\* calculateNeighborMines: for every cell that is no mine, count the mines
\* among the in-grid cells at the nine offsets.
calculateNeighborMines(g) ==
    LET cfg == Config(g)
        count(cell) ==
            Cardinality({k \in DOMAIN Offsets :
                LET newRow == cell[1] + Offsets[k][1]
                    newCol == cell[2] + Offsets[k][2]
                IN  InGrid(cfg, newRow, newCol) /\ g.board[<<newRow, newCol>>].isMine})
    IN  [g EXCEPT !.board =
            [cell \in DOMAIN g.board |->
                IF ~g.board[cell].isMine
                THEN [g.board[cell] EXCEPT !.neighborMines = count(cell)]
                ELSE g.board[cell]]]

\* The sampling loop without its test for the first-click cell: any
\* config.mines cells.
MinePlacementsAnywhere(g, excludeRow, excludeCol) ==
    {m \in SUBSET Cells(Config(g)) : Cardinality(m) = Config(g).mines}

\* The outcomes of the rejection-sampling loop of placeMines: every set of
\* config.mines cells that leaves out the excluded cell.
MinePlacements(g, excludeRow, excludeCol) ==
    {m \in SUBSET (Cells(Config(g)) \ {<<excludeRow, excludeCol>>}) :
        Cardinality(m) = Config(g).mines}

\* placeMines whose loop stops one mine short ("< config.mines - 1").
placeMinesOneShort(g, m) ==
    LET kept == m \ {CHOOSE cell \in m : TRUE}
    IN  calculateNeighborMines(
            [g EXCEPT !.placeMinesCalls = g.placeMinesCalls + 1,
                      !.board =
                [cell \in DOMAIN g.board |->
                    IF cell \in kept THEN [g.board[cell] EXCEPT !.isMine = TRUE]
                    ELSE g.board[cell]]])

\* placeMines with the loop's draws resolved to the mine set m.
placeMines(g, m) ==
    calculateNeighborMines(
        [g EXCEPT !.placeMinesCalls = g.placeMinesCalls + 1,
                  !.board =
            [cell \in DOMAIN g.board |->
                IF cell \in m THEN [g.board[cell] EXCEPT !.isMine = TRUE]
                ELSE g.board[cell]]])

\* startTimer: a new interval is created and its handle stored.
startTimer(g) == [g EXCEPT !.timerInterval = TRUE, !.clockTimers = g.clockTimers + 1]

\* stopTimer that drops the handle without clearInterval.
stopTimerKeepInterval(g) ==
    IF g.timerInterval THEN [g EXCEPT !.timerInterval = FALSE] ELSE g

\* stopTimer: the interval whose handle is held is cleared.
stopTimer(g) ==
    IF g.timerInterval
    THEN [g EXCEPT !.timerInterval = FALSE, !.clockTimers = g.clockTimers - 1]
    ELSE g

\* stopSolver without its clearInterval.
stopSolverKeepInterval(g) ==
    [g EXCEPT !.solverRunning = FALSE, !.startBtnDisabled = FALSE,
              !.stopBtnDisabled = TRUE, !.stepBtnDisabled = FALSE]

\* stopSolver
stopSolver(g) ==
    LET h == [g EXCEPT !.solverRunning = FALSE, !.startBtnDisabled = FALSE,
                       !.stopBtnDisabled = TRUE, !.stepBtnDisabled = FALSE]
    IN  IF h.solverInterval
        THEN [h EXCEPT !.solverInterval = FALSE, !.solverTimers = h.solverTimers - 1]
        ELSE h

\* Math.round(x / y * 100) for x >= 0, y > 0: halves round up.
RoundPercent(x, y) == (200 * x + y) \div (2 * y)

\* updateSolverStats
updateSolverStats(g) ==
    IF g.solverStats.gamesPlayed > 0
    THEN [g EXCEPT !.solverStats.successRate =
            RoundPercent(g.solverStats.gamesWon, g.solverStats.gamesPlayed)]
    ELSE g

\* endGame without its loop "Auto-flag remaining mines".
endGameNoAutoFlag(g, won) ==
    LET newState == IF won THEN "won" ELSE "lost"
        \* if (!this.solverRunning) showPlayerModal(); else { gamesWon++; ... }
        modalOrStats(h) ==
            IF ~h.solverRunning
            THEN [h EXCEPT !.modalOpen = TRUE]
            ELSE updateSolverStats(
                     [h EXCEPT !.solverStats.gamesWon = h.solverStats.gamesWon + 1])
        \* "Reveal all mines"
        revealMines(h) ==
            [h EXCEPT !.board = [cell \in DOMAIN h.board |->
                                    IF h.board[cell].isMine
                                    THEN [h.board[cell] EXCEPT !.isRevealed = TRUE]
                                    ELSE h.board[cell]]]
        \* "Update solver stats if solver was running"
        countGame(h) ==
            IF h.solverRunning
            THEN updateSolverStats(
                     [h EXCEPT !.solverStats.gamesPlayed = h.solverStats.gamesPlayed + 1])
            ELSE h
        branch(h) == IF won THEN modalOrStats(h) ELSE revealMines(h)
    IN  countGame(branch(stopSolver(stopTimer(
            [g EXCEPT !.gameState = newState,
                      !.stateLog = Append(g.stateLog, newState)]))))

\* endGame(won): the steps of the method in order, each an operator from the
\* game before the step to the game after it.
endGame(g, won) ==
    LET newState == IF won THEN "won" ELSE "lost"
        \* "Auto-flag remaining mines"
        autoFlag(h) ==
            [h EXCEPT
                !.board = [cell \in DOMAIN h.board |->
                    IF h.board[cell].isMine /\ ~h.board[cell].isFlagged
                    THEN [h.board[cell] EXCEPT !.isFlagged = TRUE]
                    ELSE h.board[cell]],
                !.flagCount = h.flagCount + Cardinality({cell \in DOMAIN h.board :
                                  h.board[cell].isMine /\ ~h.board[cell].isFlagged})]
        \* if (!this.solverRunning) showPlayerModal(); else { gamesWon++; ... }
        modalOrStats(h) ==
            IF ~h.solverRunning
            THEN [h EXCEPT !.modalOpen = TRUE]
            ELSE updateSolverStats(
                     [h EXCEPT !.solverStats.gamesWon = h.solverStats.gamesWon + 1])
        \* "Reveal all mines"
        revealMines(h) ==
            [h EXCEPT !.board = [cell \in DOMAIN h.board |->
                                    IF h.board[cell].isMine
                                    THEN [h.board[cell] EXCEPT !.isRevealed = TRUE]
                                    ELSE h.board[cell]]]
        \* "Update solver stats if solver was running"
        countGame(h) ==
            IF h.solverRunning
            THEN updateSolverStats(
                     [h EXCEPT !.solverStats.gamesPlayed = h.solverStats.gamesPlayed + 1])
            ELSE h
        branch(h) == IF won THEN modalOrStats(autoFlag(h)) ELSE revealMines(h)
    IN  countGame(branch(stopSolver(stopTimer(
            [g EXCEPT !.gameState = newState,
                      !.stateLog = Append(g.stateLog, newState)]))))

\* revealCell(row, col): the recursive flood fill.  revealAround(g, row, col)
\* is its double loop over the offsets: g1 .. g9 are the game after each of the
\* nine iterations, computed in that order.
RECURSIVE revealCell(_, _, _), revealAround(_, _, _)

\* revealCell whose early return tests isFlagged only: a cell that is already
\* revealed is marked again (and the fill does not go on from it).
revealCellMarksAgain(g, row, col) ==
    LET cellData == g.board[<<row, col>>]
    IN  IF cellData.isFlagged THEN [g EXCEPT !.revealCellCalls = g.revealCellCalls + 1]
        ELSE LET g1 == [g EXCEPT !.board[<<row, col>>].isRevealed = TRUE,
                                 !.revealCellCalls = g.revealCellCalls + 1,
                                 !.revealLog = Append(g.revealLog, <<row, col>>)]
             IN  IF cellData.isRevealed THEN g1
                 ELSE IF cellData.isMine THEN endGame(g1, FALSE)
                 ELSE IF cellData.neighborMines = 0 THEN revealAround(g1, row, col)
                 ELSE g1

revealCell(g, row, col) ==
    LET cellData == g.board[<<row, col>>]
    IN  IF cellData.isRevealed \/ cellData.isFlagged
        THEN [g EXCEPT !.revealCellCalls = g.revealCellCalls + 1]
        ELSE LET g1 == [g EXCEPT !.board[<<row, col>>].isRevealed = TRUE,
                                 !.revealCellCalls = g.revealCellCalls + 1,
                                 !.revealLog = Append(g.revealLog, <<row, col>>)]
             IN  IF cellData.isMine THEN endGame(g1, FALSE)
                 ELSE IF cellData.neighborMines = 0 THEN revealAround(g1, row, col)
                 ELSE g1

\* The flood-fill loop visiting only the four orthogonal neighbours.
revealAroundOrthogonal(g, row, col) ==
    LET visit(h, i, j) ==
            IF InGrid(Config(h), row + i, col + j)
            THEN revealCell(h, row + i, col + j) ELSE h
        g2 == visit(g, -1, 0)
        g4 == visit(g2, 0, -1)
        g6 == visit(g4, 0, 1)
        g8 == visit(g6, 1, 0)
    IN  <<g2, g4, g6, g8>>[4]

revealAround(g, row, col) ==
    LET visit(h, i, j) ==
            IF InGrid(Config(h), row + i, col + j)
            THEN revealCell(h, row + i, col + j) ELSE h
        g1 == visit(g, -1, -1)
        g2 == visit(g1, -1, 0)
        g3 == visit(g2, -1, 1)
        g4 == visit(g3, 0, -1)
        g5 == visit(g4, 0, 0)
        g6 == visit(g5, 0, 1)
        g7 == visit(g6, 1, -1)
        g8 == visit(g7, 1, 0)
        g9 == visit(g8, 1, 1)
    IN  <<g1, g2, g3, g4, g5, g6, g7, g8, g9>>[9]

\* checkGameState with the number of safe cells one too small.
checkGameStateOffByOne(g) ==
    LET cfg == Config(g)
        revealedCount == Cardinality({cell \in DOMAIN g.board :
                             g.board[cell].isRevealed /\ ~g.board[cell].isMine})
        totalSafeCells == cfg.rows * cfg.cols - cfg.mines - 1
    IN  IF revealedCount = totalSafeCells THEN endGame(g, TRUE) ELSE g

\* checkGameState
checkGameState(g) ==
    LET cfg == Config(g)
        revealedCount == Cardinality({cell \in DOMAIN g.board :
                             g.board[cell].isRevealed /\ ~g.board[cell].isMine})
        totalSafeCells == cfg.rows * cfg.cols - cfg.mines
    IN  IF revealedCount = totalSafeCells THEN endGame(g, TRUE) ELSE g

\* handleCellClick(e, fromSolver) throws a TypeError: past the two early
\* returns, this.board[row][col] is undefined for a coordinate outside the grid
\* (this.board[row] itself is undefined for a row outside it), and reading
\* cellData.isFlagged of undefined throws.
handleCellClickThrows(g, row, col, fromSolver) ==
    /\ ~(g.gameState = "won" \/ g.gameState = "lost")
    /\ ~(g.solverRunning /\ ~fromSolver)
    /\ ~InGrid(Config(g), row, col)

\* handleRightClick(e) throws a TypeError: past the two early returns, reading
\* cellData.isRevealed of the undefined this.board[row][col] throws.
handleRightClickThrows(g, row, col) ==
    /\ ~(g.gameState = "won" \/ g.gameState = "lost")
    /\ ~g.solverRunning
    /\ ~InGrid(Config(g), row, col)

\* handleCellClick without its test for a finished game.
handleCellClickAfterEnd(g, row, col, fromSolver, m) ==
    IF g.solverRunning /\ ~fromSolver THEN g
    ELSE LET cellData == g.board[<<row, col>>]
         IN  IF cellData.isFlagged \/ cellData.isRevealed THEN g
             ELSE LET g1 == IF g.firstClick
                            THEN [startTimer(placeMines(g, m)) EXCEPT
                                     !.firstClick = FALSE, !.gameState = "playing",
                                     !.stateLog = Append(g.stateLog, "playing")]
                            ELSE g
                  IN  checkGameState(revealCell(g1, row, col))

\* handleCellClick whose early return tests isRevealed only: a flagged cell is
\* revealed like any other.
handleCellClickThroughFlag(g, row, col, fromSolver, m) ==
    IF g.gameState = "won" \/ g.gameState = "lost" THEN g
    ELSE IF g.solverRunning /\ ~fromSolver THEN g
    ELSE LET cellData == g.board[<<row, col>>]
         IN  IF cellData.isRevealed THEN g
             ELSE LET g1 == IF g.firstClick
                            THEN [startTimer(placeMines(g, m)) EXCEPT
                                     !.firstClick = FALSE, !.gameState = "playing",
                                     !.stateLog = Append(g.stateLog, "playing")]
                            ELSE g
                      g2 == [g1 EXCEPT !.board[<<row, col>>].isFlagged = FALSE]
                  IN  checkGameState(revealCell(g2, row, col))

\* handleCellClick that leaves this.firstClick set after the first click.
handleCellClickKeepsFirstClick(g, row, col, fromSolver, m) ==
    IF g.gameState = "won" \/ g.gameState = "lost" THEN g
    ELSE IF g.solverRunning /\ ~fromSolver THEN g
    ELSE LET cellData == g.board[<<row, col>>]
         IN  IF cellData.isFlagged \/ cellData.isRevealed THEN g
             ELSE LET g1 == IF g.firstClick
                            THEN [startTimer(placeMines(g, m)) EXCEPT
                                     !.gameState = "playing",
                                     !.stateLog = Append(g.stateLog, "playing")]
                            ELSE g
                  IN  checkGameState(revealCell(g1, row, col))

\* handleCellClick(e, fromSolver), with the first click's mine set m.
handleCellClick(g, row, col, fromSolver, m) ==
    IF g.gameState = "won" \/ g.gameState = "lost" THEN g
    ELSE IF g.solverRunning /\ ~fromSolver THEN g
    ELSE LET cellData == g.board[<<row, col>>]
         IN  IF cellData.isFlagged \/ cellData.isRevealed THEN g
             ELSE LET g1 == IF g.firstClick
                            THEN [startTimer(placeMines(g, m)) EXCEPT
                                     !.firstClick = FALSE, !.gameState = "playing",
                                     !.stateLog = Append(g.stateLog, "playing")]
                            ELSE g
                  IN  checkGameState(revealCell(g1, row, col))

\* handleRightClick without its test for a finished game.
handleRightClickAfterEnd(g, row, col) ==
    IF g.solverRunning THEN g
    ELSE LET cellData == g.board[<<row, col>>]
         IN  IF cellData.isRevealed THEN g
             ELSE [g EXCEPT !.board[<<row, col>>].isFlagged = ~cellData.isFlagged,
                            !.flagCount = g.flagCount + (IF ~cellData.isFlagged THEN 1 ELSE -1)]

\* handleRightClick without its test for a running solver.
handleRightClickDuringRun(g, row, col) ==
    IF g.gameState = "won" \/ g.gameState = "lost" THEN g
    ELSE LET cellData == g.board[<<row, col>>]
         IN  IF cellData.isRevealed THEN g
             ELSE [g EXCEPT !.board[<<row, col>>].isFlagged = ~cellData.isFlagged,
                            !.flagCount = g.flagCount + (IF ~cellData.isFlagged THEN 1 ELSE -1)]

\* handleRightClick that adds 1 to flagCount whichever way the flag flips.
handleRightClickCountsUp(g, row, col) ==
    IF g.gameState = "won" \/ g.gameState = "lost" THEN g
    ELSE IF g.solverRunning THEN g
    ELSE LET cellData == g.board[<<row, col>>]
         IN  IF cellData.isRevealed THEN g
             ELSE [g EXCEPT !.board[<<row, col>>].isFlagged = ~cellData.isFlagged,
                            !.flagCount = g.flagCount + 1]

\* handleRightClick(e)
handleRightClick(g, row, col) ==
    IF g.gameState = "won" \/ g.gameState = "lost" THEN g
    ELSE IF g.solverRunning THEN g
    ELSE LET cellData == g.board[<<row, col>>]
         IN  IF cellData.isRevealed THEN g
             ELSE [g EXCEPT !.board[<<row, col>>].isFlagged = ~cellData.isFlagged,
                            !.flagCount = g.flagCount + (IF ~cellData.isFlagged THEN 1 ELSE -1)]

\* resetGame without its call of stopSolver.
resetGameKeepsSolver(g) ==
    createBoard(stopTimer(
        [g EXCEPT !.gameState = "ready", !.stateLog = Append(g.stateLog, "ready"),
                  !.timer = 0, !.firstClick = TRUE, !.flagCount = 0]))

\* resetGame
resetGame(g) ==
    createBoard(stopSolver(stopTimer(
        [g EXCEPT !.gameState = "ready", !.stateLog = Append(g.stateLog, "ready"),
                  !.timer = 0, !.firstClick = TRUE, !.flagCount = 0])))

\* changeDifficulty(difficulty)
changeDifficulty(g, difficulty) ==
    IF difficulty \in DOMAIN difficulties
    THEN resetGame([g EXCEPT !.currentDifficulty = difficulty])
    ELSE g

\* What changeDifficulty(difficulty) reports to its caller: the method has no
\* throw and no return statement, and the lookup of a key the table lacks
\* yields undefined, so the call completes with nothing reported for every key.
changeDifficultyReport(g, difficulty) == "none"

\* startSolver that counts a game as played when the run starts.
startSolverCountsGame(g) ==
    LET g1 == IF g.gameState = "won" \/ g.gameState = "lost" THEN resetGame(g) ELSE g
    IN  [g1 EXCEPT !.solverRunning = TRUE, !.startBtnDisabled = TRUE,
                   !.stopBtnDisabled = FALSE, !.stepBtnDisabled = TRUE,
                   !.solverInterval = TRUE, !.solverTimers = g1.solverTimers + 1,
                   !.solverStats.gamesPlayed = g1.solverStats.gamesPlayed + 1]

\* startSolver that leaves the Start Solver button enabled.
startSolverLeavesStartEnabled(g) ==
    LET g1 == IF g.gameState = "won" \/ g.gameState = "lost" THEN resetGame(g) ELSE g
    IN  [g1 EXCEPT !.solverRunning = TRUE, !.startBtnDisabled = g1.startBtnDisabled,
                   !.stopBtnDisabled = FALSE, !.stepBtnDisabled = TRUE,
                   !.solverInterval = TRUE, !.solverTimers = g1.solverTimers + 1]

\* startSolver
startSolver(g) ==
    LET g1 == IF g.gameState = "won" \/ g.gameState = "lost" THEN resetGame(g) ELSE g
    IN  [g1 EXCEPT !.solverRunning = TRUE, !.startBtnDisabled = TRUE,
                   !.stopBtnDisabled = FALSE, !.stepBtnDisabled = TRUE,
                   !.solverInterval = TRUE, !.solverTimers = g1.solverTimers + 1]


(***************************************************************************)
(* MinesweeperSolver                                                       *)
(***************************************************************************)

\* "no move": the null a solver method returns.
NoMove == [row |-> -1, col |-> -1, action |-> "none"]

\* getNeighbors(row, col): the in-grid cells around (row, col), in loop order.
getNeighbors(g, row, col) ==
    LET shifted(around) == [k \in DOMAIN around |-> <<row + around[k][1], col + around[k][2]>>]
    IN  shifted(SelectSeq(Offsets, LAMBDA o :
            ~(o[1] = 0 /\ o[2] = 0) /\ InGrid(Config(g), row + o[1], col + o[2])))

\* neighbors.filter(n => !isRevealed && !isFlagged)
hiddenOf(g, neighbors) ==
    SelectSeq(neighbors, LAMBDA n : ~g.board[n].isRevealed /\ ~g.board[n].isFlagged)

\* neighbors.filter(n => isFlagged)
flaggedOf(g, neighbors) == SelectSeq(neighbors, LAMBDA n : g.board[n].isFlagged)

\* The first element of a sequence of moves that is a move, or NoMove.
FirstMove(moves) ==
    LET first(hits) ==
            IF hits = {} THEN NoMove
            ELSE moves[CHOOSE k \in hits : \A j \in hits : k <= j]
    IN  first({k \in DOMAIN moves : moves[k].action # "none"})

\* The loop body whose second test compares the hidden neighbours with
\* neighborMines itself, the flagged neighbours not subtracted.
basicMoveAtIgnoringFlags(g, cell) ==
    LET decide(c, hiddenNeighbors, flaggedNeighbors) ==
            IF ~c.isRevealed \/ c.neighborMines = 0 THEN NoMove
            ELSE IF Len(flaggedNeighbors) = c.neighborMines /\ Len(hiddenNeighbors) > 0
            THEN [row |-> hiddenNeighbors[1][1], col |-> hiddenNeighbors[1][2],
                  action |-> "reveal"]
            ELSE IF Len(hiddenNeighbors) = c.neighborMines /\ Len(hiddenNeighbors) > 0
            THEN [row |-> hiddenNeighbors[1][1], col |-> hiddenNeighbors[1][2],
                  action |-> "flag"]
            ELSE NoMove
        at(neighbors) == decide(g.board[cell], hiddenOf(g, neighbors), flaggedOf(g, neighbors))
    IN  at(getNeighbors(g, cell[1], cell[2]))

\* The body of findBasicMoves's loop for one cell.
basicMoveAt(g, cell) ==
    LET decide(c, hiddenNeighbors, flaggedNeighbors) ==
            IF ~c.isRevealed \/ c.neighborMines = 0 THEN NoMove
            ELSE IF Len(flaggedNeighbors) = c.neighborMines /\ Len(hiddenNeighbors) > 0
            THEN [row |-> hiddenNeighbors[1][1], col |-> hiddenNeighbors[1][2],
                  action |-> "reveal"]
            ELSE IF Len(hiddenNeighbors) = c.neighborMines - Len(flaggedNeighbors)
                    /\ Len(hiddenNeighbors) > 0
            THEN [row |-> hiddenNeighbors[1][1], col |-> hiddenNeighbors[1][2],
                  action |-> "flag"]
            ELSE NoMove
        at(neighbors) == decide(g.board[cell], hiddenOf(g, neighbors), flaggedOf(g, neighbors))
    IN  at(getNeighbors(g, cell[1], cell[2]))

\* findBasicMoves: the first cell in row-major order that yields a move.
findBasicMoves(g) ==
    LET cells == CellSeq(Config(g))
    IN  FirstMove([k \in DOMAIN cells |-> basicMoveAt(g, cells[k])])

\* The decimal digits of a natural number, as a string of characters.
RECURSIVE Digits(_)
Digits(n) ==
    LET d == <<"0", "1", "2", "3", "4", "5", "6", "7", "8", "9">>
    IN  IF n < 10 THEN <<d[n + 1]>> ELSE Digits(n \div 10) \o <<d[(n % 10) + 1]>>

\* `${row},${col}`
ToKey(row, col) == Digits(row) \o <<",">> \o Digits(col)

\* Number(s) for a string of decimal digits.
RECURSIVE Number(_)
Number(s) ==
    LET v(ch) == CHOOSE n \in 0 .. 9 : Digits(n) = <<ch>>
    IN  IF Len(s) = 0 THEN 0
        ELSE 10 * Number(SubSeq(s, 1, Len(s) - 1)) + v(s[Len(s)])

\* key.split(',').map(Number)
FromKey(key) ==
    LET split(comma) ==
            <<Number(SubSeq(key, 1, comma - 1)), Number(SubSeq(key, comma + 1, Len(key)))>>
    IN  split(CHOOSE k \in DOMAIN key : key[k] = ",")

\* Concatenation of a sequence of sequences.
RECURSIVE Flatten(_)
Flatten(ss) == IF Len(ss) = 0 THEN <<>> ELSE Head(ss) \o Flatten(Tail(ss))

\* buildConstraints whose mineCount is neighborMines: the flagged neighbours
\* are not subtracted.
buildConstraintsIgnoringFlags(g) ==
    LET constraint(c, hiddenNeighbors) ==
            IF ~c.isRevealed \/ c.neighborMines = 0 THEN <<>>
            ELSE IF Len(hiddenNeighbors) > 0
            THEN << [cells |-> [k \in DOMAIN hiddenNeighbors |->
                                   ToKey(hiddenNeighbors[k][1], hiddenNeighbors[k][2])],
                     mineCount |-> c.neighborMines] >>
            ELSE <<>>
        around(cell, neighbors) == constraint(g.board[cell], hiddenOf(g, neighbors))
        at(cell) == around(cell, getNeighbors(g, cell[1], cell[2]))
        each(cells) == Flatten([k \in DOMAIN cells |-> at(cells[k])])
    IN  each(CellSeq(Config(g)))

\* buildConstraints: one constraint per revealed numbered cell with a hidden
\* unflagged neighbour, in row-major order.
buildConstraints(g) ==
    LET constraint(c, hiddenNeighbors, flaggedCount) ==
            IF ~c.isRevealed \/ c.neighborMines = 0 THEN <<>>
            ELSE IF Len(hiddenNeighbors) > 0
            THEN << [cells |-> [k \in DOMAIN hiddenNeighbors |->
                                   ToKey(hiddenNeighbors[k][1], hiddenNeighbors[k][2])],
                     mineCount |-> c.neighborMines - flaggedCount] >>
            ELSE <<>>
        around(cell, neighbors) ==
            constraint(g.board[cell], hiddenOf(g, neighbors), Len(flaggedOf(g, neighbors)))
        at(cell) == around(cell, getNeighbors(g, cell[1], cell[2]))
        each(cells) == Flatten([k \in DOMAIN cells |-> at(cells[k])])
    IN  each(CellSeq(Config(g)))

\* solveConstraints whose loop returns null after its first constraint.
solveConstraintsFirstOnly(constraints) ==
    LET entries(constraint) ==
            [k \in DOMAIN constraint.cells |->
                <<constraint.cells[k], IF constraint.mineCount = 0 THEN 0 ELSE 1>>]
        first(decided) ==
            IF decided = {} THEN <<>> ELSE entries(constraints[1])
    IN  first({k \in DOMAIN constraints :
                  /\ k = 1
                  /\ \/ constraints[k].mineCount = 0
                     \/ constraints[k].mineCount = Len(constraints[k].cells)})

\* solveConstraints: the Map of the first constraint that is all safe or all
\* mines, as the sequence of its entries <<key, value>> in insertion order;
\* the empty sequence stands for null.
solveConstraints(constraints) ==
    LET entries(constraint) ==
            [k \in DOMAIN constraint.cells |->
                <<constraint.cells[k], IF constraint.mineCount = 0 THEN 0 ELSE 1>>]
        first(decided) ==
            IF decided = {} THEN <<>>
            ELSE entries(constraints[CHOOSE k \in decided : \A j \in decided : k <= j])
    IN  first({k \in DOMAIN constraints :
                  \/ constraints[k].mineCount = 0
                  \/ constraints[k].mineCount = Len(constraints[k].cells)})

\* findConstraintMoves
findConstraintMoves(g) ==
    LET moveAt(rc, value) ==
            IF ~g.board[rc].isRevealed /\ ~g.board[rc].isFlagged
            THEN [row |-> rc[1], col |-> rc[2],
                  action |-> IF value = 1 THEN "flag" ELSE "reveal"]
            ELSE NoMove
        moves(solution) ==
            FirstMove([k \in DOMAIN solution |->
                moveAt(FromKey(solution[k][1]), solution[k][2])])
    IN  moves(solveConstraints(buildConstraints(g)))

\* is121Pattern(row, col, dRow, dCol)
is121Pattern(g, row, col, dRow, dCol) ==
    LET is121(cells) ==
            /\ cells[1].isRevealed /\ cells[1].neighborMines = 1
            /\ cells[2].isRevealed /\ cells[2].neighborMines = 2
            /\ cells[3].isRevealed /\ cells[3].neighborMines = 1
    IN  is121(<< g.board[<<row, col>>],
                 g.board[<<row + dRow, col + dCol>>],
                 g.board[<<row + 2 * dRow, col + 2 * dCol>>] >>)

\* solve121Pattern(row, col, dRow, dCol)
solve121Pattern(g, row, col, dRow, dCol) ==
    LET moveAt(r, c) ==
            IF InGrid(Config(g), r, c)
               /\ ~g.board[<<r, c>>].isRevealed /\ ~g.board[<<r, c>>].isFlagged
            THEN [row |-> r, col |-> c, action |-> "reveal"]
            ELSE NoMove
        first(checkPositions) ==
            FirstMove([k \in DOMAIN checkPositions |->
                moveAt(checkPositions[k][1], checkPositions[k][2])])
        perpendicular(perpRow, perpCol) ==
            first(<< <<row - perpRow, col - perpCol>>,
                     <<row + perpRow, col + perpCol>>,
                     <<row + dRow - perpRow, col + dCol - perpCol>>,
                     <<row + dRow + perpRow, col + dCol + perpCol>>,
                     <<row + 2 * dRow - perpRow, col + 2 * dCol - perpCol>>,
                     <<row + 2 * dRow + perpRow, col + 2 * dCol + perpCol>> >>)
    IN  perpendicular(dCol, dRow)

\* findPatternMoves: rows 0 .. rows-3, every column, vertical before horizontal.
findPatternMoves(g) ==
    LET vertical(cell) ==
            IF is121Pattern(g, cell[1], cell[2], 1, 0)
            THEN solve121Pattern(g, cell[1], cell[2], 1, 0) ELSE NoMove
        horizontal(cell) ==
            IF cell[2] < Config(g).cols - 2 /\ is121Pattern(g, cell[1], cell[2], 0, 1)
            THEN solve121Pattern(g, cell[1], cell[2], 0, 1) ELSE NoMove
        each(starts) ==
            FirstMove(Flatten([k \in DOMAIN starts |->
                <<vertical(starts[k]), horizontal(starts[k])>>]))
    IN  each(SelectSeq(CellSeq(Config(g)), LAMBDA cell : cell[1] < Config(g).rows - 2))

\* findBorderCells: hidden unflagged cells with a revealed neighbour, row-major.
findBorderCells(g) ==
    LET someRevealed(neighbors) == \E k \in DOMAIN neighbors : g.board[neighbors[k]].isRevealed
    IN  SelectSeq(CellSeq(Config(g)), LAMBDA cell :
            /\ ~g.board[cell].isRevealed /\ ~g.board[cell].isFlagged
            /\ someRevealed(getNeighbors(g, cell[1], cell[2])))

\* Sum of f over the indices of a sequence.
RECURSIVE SumSeq(_)
SumSeq(s) == IF Len(s) = 0 THEN 0 ELSE Head(s) + SumSeq(Tail(s))

\* Fractions <<numerator, denominator>> with a positive denominator stand for
\* the program's floating-point quotients of small integers.
Half == <<1, 2>>
Less(p, q) == p[1] * q[2] < q[1] * p[2]
Same(p, q) == p[1] * q[2] = q[1] * p[2]

\* Math.max(0, Math.min(1, probability))
Clamp(p) == IF p[1] < 0 THEN <<0, 1>> ELSE IF p[1] > p[2] THEN <<1, 1>> ELSE p

\* The estimate with requiredMines taken as neighborMines: the flagged
\* neighbours are not subtracted.
probabilityOfIgnoringFlags(g, cell) ==
    LET added(neighborCell, hiddenCount) ==
            IF neighborCell.neighborMines > 0 /\ hiddenCount > 0
            THEN <<neighborCell.neighborMines, hiddenCount>>
            ELSE <<0, 0>>
        counted(neighbor, neighborNeighbors) ==
            added(g.board[neighbor], Len(hiddenOf(g, neighborNeighbors)))
        term(neighbor) == counted(neighbor, getNeighbors(g, neighbor[1], neighbor[2]))
        probability(totalConstraint, totalCells) ==
            Clamp(IF totalCells > 0 THEN <<totalConstraint, totalCells>> ELSE Half)
        summed(terms) ==
            probability(SumSeq([k \in DOMAIN terms |-> terms[k][1]]),
                        SumSeq([k \in DOMAIN terms |-> terms[k][2]]))
        over(revealedNeighbors) ==
            summed([k \in DOMAIN revealedNeighbors |-> term(revealedNeighbors[k])])
    IN  over(SelectSeq(getNeighbors(g, cell[1], cell[2]), LAMBDA n : g.board[n].isRevealed))

\* The value calculateProbabilities stores for one border cell: term is what
\* one revealed neighbour adds to <<totalConstraint, totalCells>>.
probabilityOf(g, cell) ==
    LET added(neighborCell, hiddenCount, flaggedCount) ==
            IF neighborCell.neighborMines > 0 /\ hiddenCount > 0
            THEN <<neighborCell.neighborMines - flaggedCount, hiddenCount>>
            ELSE <<0, 0>>
        counted(neighbor, neighborNeighbors) ==
            added(g.board[neighbor], Len(hiddenOf(g, neighborNeighbors)),
                  Len(flaggedOf(g, neighborNeighbors)))
        term(neighbor) == counted(neighbor, getNeighbors(g, neighbor[1], neighbor[2]))
        probability(totalConstraint, totalCells) ==
            Clamp(IF totalCells > 0 THEN <<totalConstraint, totalCells>> ELSE Half)
        summed(terms) ==
            probability(SumSeq([k \in DOMAIN terms |-> terms[k][1]]),
                        SumSeq([k \in DOMAIN terms |-> terms[k][2]]))
        over(revealedNeighbors) ==
            summed([k \in DOMAIN revealedNeighbors |-> term(revealedNeighbors[k])])
    IN  over(SelectSeq(getNeighbors(g, cell[1], cell[2]), LAMBDA n : g.board[n].isRevealed))

\* calculateProbabilities(borderCells): the Map, as a function of the keys.
calculateProbabilities(g, borderCells) ==
    [key \in {ToKey(borderCells[k][1], borderCells[k][2]) : k \in DOMAIN borderCells} |->
        probabilityOf(g, FromKey(key))]

\* probabilities.get(key) || 0.5: a stored 0 is falsy and reads as 0.5.
getOrHalf(probabilities, key) ==
    IF key \in DOMAIN probabilities /\ ~Same(probabilities[key], <<0, 1>>)
    THEN probabilities[key] ELSE Half

\* findTankMoves
findTankMoves(g) ==
    LET moveAt(cell, prob) ==
            IF Same(prob, <<0, 1>>)
            THEN [row |-> cell[1], col |-> cell[2], action |-> "reveal"]
            ELSE IF Same(prob, <<1, 1>>)
            THEN [row |-> cell[1], col |-> cell[2], action |-> "flag"]
            ELSE NoMove
        moves(borderCells, probabilities) ==
            FirstMove([k \in DOMAIN borderCells |->
                moveAt(borderCells[k],
                       getOrHalf(probabilities, ToKey(borderCells[k][1], borderCells[k][2])))])
        from(borderCells) == moves(borderCells, calculateProbabilities(g, borderCells))
    IN  from(findBorderCells(g))

\* findBestMove that tries the pattern matcher before the deductive strategies.
findBestMovePatternFirst(g) ==
    LET tag(move, strategy) ==
            [row |-> move.row, col |-> move.col, action |-> move.action,
             strategy |-> strategy]
        orElse(move, strategy, otherwise) ==
            IF move.action # "none" THEN tag(move, strategy) ELSE otherwise
    IN  orElse(findPatternMoves(g), "Pattern Recognition",
        orElse(findBasicMoves(g), "Basic Logic",
        orElse(findConstraintMoves(g), "Constraint Solving",
        orElse(findTankMoves(g), "Tank Solver",
        tag(NoMove, "none")))))

\* findBestMove: the move with its strategy, or NoMove with strategy "none";
\* orElse(move, strategy, otherwise) is one link of the chain of "||".
findBestMove(g) ==
    LET tag(move, strategy) ==
            [row |-> move.row, col |-> move.col, action |-> move.action,
             strategy |-> strategy]
        orElse(move, strategy, otherwise) ==
            IF move.action # "none" THEN tag(move, strategy) ELSE otherwise
    IN  orElse(findBasicMoves(g), "Basic Logic",
        orElse(findConstraintMoves(g), "Constraint Solving",
        orElse(findPatternMoves(g), "Pattern Recognition",
        orElse(findTankMoves(g), "Tank Solver",
        tag(NoMove, "none")))))

\* The scan of makeEducatedGuess over the border cells from the k-th on:
\* bestCell after the loop (<<-1, -1>> for null).
RECURSIVE lowestFrom(_, _, _, _, _)
lowestFrom(borderCells, probabilities, k, bestCell, lowestProb) ==
    LET next(cell, prob) ==
            IF Less(prob, lowestProb)
            THEN lowestFrom(borderCells, probabilities, k + 1, cell, prob)
            ELSE lowestFrom(borderCells, probabilities, k + 1, bestCell, lowestProb)
    IN  IF k > Len(borderCells) THEN bestCell
        ELSE next(borderCells[k],
                  getOrHalf(probabilities, ToKey(borderCells[k][1], borderCells[k][2])))

\* makeEducatedGuess without the random pick: null when the scan of the
\* border cells leaves bestCell null.
makeEducatedGuessBorderOnly(g) ==
    LET guess(bestCell) ==
            IF bestCell # <<-1, -1>>
            THEN {[row |-> bestCell[1], col |-> bestCell[2], action |-> "reveal"]}
            ELSE {NoMove}
        from(borderCells) ==
            guess(IF Len(borderCells) > 0
                  THEN lowestFrom(borderCells, calculateProbabilities(g, borderCells),
                                  1, <<-1, -1>>, <<1, 1>>)
                  ELSE <<-1, -1>>)
    IN  from(findBorderCells(g))

\* makeEducatedGuess: the set of moves it can return (one for each value of
\* Math.random() in the random pick); {NoMove} when it returns null.
makeEducatedGuess(g) ==
    LET randomOf(unrevealedCells) ==
            IF unrevealedCells # {}
            THEN {[row |-> cell[1], col |-> cell[2], action |-> "reveal"] :
                     cell \in unrevealedCells}
            ELSE {NoMove}
        guess(bestCell) ==
            IF bestCell # <<-1, -1>>
            THEN {[row |-> bestCell[1], col |-> bestCell[2], action |-> "reveal"]}
            ELSE randomOf({cell \in DOMAIN g.board :
                              ~g.board[cell].isRevealed /\ ~g.board[cell].isFlagged})
        from(borderCells) ==
            guess(IF Len(borderCells) > 0
                  THEN lowestFrom(borderCells, calculateProbabilities(g, borderCells),
                                  1, <<-1, -1>>, <<1, 1>>)
                  ELSE <<-1, -1>>)
    IN  from(findBorderCells(g))

\* A findBestMove that applies the move it found to the board itself.
findBestMoveCallApplying(g) ==
    LET applied(move) ==
            [game |-> IF move.action = "flag"
                      THEN [g EXCEPT !.board[<<move.row, move.col>>].isFlagged = TRUE,
                                     !.flagCount = g.flagCount + 1]
                      ELSE IF move.action = "reveal"
                      THEN [g EXCEPT !.board[<<move.row, move.col>>].isRevealed = TRUE]
                      ELSE g,
             move |-> move]
    IN  applied(findBestMove(g))

\* The call solver.findBestMove(): the game object after the call and the
\* value returned.  The method and the strategies it calls assign only to
\* their local variables (move, constraints, solution, borderCells,
\* probabilities), and the solver object has the one field this.game.
findBestMoveCall(g) == [game |-> g, move |-> findBestMove(g)]

\* The call solver.makeEducatedGuess(): the game object after the call and the
\* moves it can return; it assigns only to its local variables.
makeEducatedGuessCall(g) == [game |-> g, moves |-> makeEducatedGuess(g)]

\* solverStep whose flag move sets isFlagged without flagCount++.
solverStepFlagUncounted(g, m, guessMove) ==
    LET withMove(move) ==
            IF move.action # "none"
            THEN IF move.action = "reveal"
                 THEN checkGameState(revealCell(g, move.row, move.col))
                 ELSE checkGameState(
                          IF ~g.board[<<move.row, move.col>>].isFlagged
                             /\ ~g.board[<<move.row, move.col>>].isRevealed
                          THEN [g EXCEPT !.board[<<move.row, move.col>>].isFlagged = TRUE]
                          ELSE g)
            ELSE IF guessMove.action # "none"
            THEN checkGameState(revealCell(g, guessMove.row, guessMove.col))
            ELSE stopSolver(g)
    IN  IF g.gameState = "won" \/ g.gameState = "lost" THEN stopSolver(g)
        ELSE IF g.firstClick
        THEN handleCellClick(g, Config(g).rows \div 2, Config(g).cols \div 2, TRUE, m)
        ELSE withMove(findBestMove(g))

\* solverStep, with the first click's mine set m and the guess drawn;
\* withMove(move) is the method from "const move = this.solver.findBestMove()" on.
solverStep(g, m, guessMove) ==
    LET withMove(move) ==
            IF move.action # "none"
            THEN IF move.action = "reveal"
                 THEN checkGameState(revealCell(g, move.row, move.col))
                 ELSE checkGameState(
                          IF ~g.board[<<move.row, move.col>>].isFlagged
                             /\ ~g.board[<<move.row, move.col>>].isRevealed
                          THEN [g EXCEPT !.board[<<move.row, move.col>>].isFlagged = TRUE,
                                         !.flagCount = g.flagCount + 1]
                          ELSE g)
            ELSE IF guessMove.action # "none"
            THEN checkGameState(revealCell(g, guessMove.row, guessMove.col))
            ELSE stopSolver(g)
    IN  IF g.gameState = "won" \/ g.gameState = "lost" THEN stopSolver(g)
        ELSE IF g.firstClick
        THEN handleCellClick(g, Config(g).rows \div 2, Config(g).cols \div 2, TRUE, m)
        ELSE withMove(findBestMove(g))

(***************************************************************************)
(* The state machine                                                       *)
(***************************************************************************)

\* The fields of the game object, as one record, at the start of a handler.
Cur ==
    [currentDifficulty |-> currentDifficulty, board |-> board, gameState |-> gameState,
     timer |-> timer, timerInterval |-> timerInterval, firstClick |-> firstClick,
     flagCount |-> flagCount, solverRunning |-> solverRunning,
     solverInterval |-> solverInterval, solverStats |-> solverStats,
     startBtnDisabled |-> startBtnDisabled, stopBtnDisabled |-> stopBtnDisabled,
     stepBtnDisabled |-> stepBtnDisabled, modalOpen |-> modalOpen,
     clockTimers |-> clockTimers, solverTimers |-> solverTimers, stateLog |-> << >>,
     placeMinesCalls |-> 0, revealCellCalls |-> 0, revealLog |-> << >>]

\* The game object becomes g.
Becomes(g) ==
    /\ currentDifficulty' = g.currentDifficulty
    /\ board' = g.board
    /\ gameState' = g.gameState
    /\ timer' = g.timer
    /\ timerInterval' = g.timerInterval
    /\ firstClick' = g.firstClick
    /\ flagCount' = g.flagCount
    /\ solverRunning' = g.solverRunning
    /\ solverInterval' = g.solverInterval
    /\ solverStats' = g.solverStats
    /\ startBtnDisabled' = g.startBtnDisabled
    /\ stopBtnDisabled' = g.stopBtnDisabled
    /\ stepBtnDisabled' = g.stepBtnDisabled
    /\ modalOpen' = g.modalOpen
    /\ clockTimers' = g.clockTimers
    /\ solverTimers' = g.solverTimers

\* The constructor: field initialisers, the page's markup, then resetGame().
Constructed ==
    resetGame(
        [currentDifficulty |-> "easy", board |-> << >>, gameState |-> "ready",
         timer |-> 0, timerInterval |-> FALSE, firstClick |-> TRUE, flagCount |-> 0,
         solverRunning |-> FALSE, solverInterval |-> FALSE,
         solverStats |-> [gamesPlayed |-> 0, gamesWon |-> 0, successRate |-> 0],
         startBtnDisabled |-> FALSE, stopBtnDisabled |-> TRUE, stepBtnDisabled |-> FALSE,
         modalOpen |-> FALSE, clockTimers |-> 0, solverTimers |-> 0, stateLog |-> << >>,
         placeMinesCalls |-> 0, revealCellCalls |-> 0, revealLog |-> << >>])

Init ==
    /\ currentDifficulty = Constructed.currentDifficulty
    /\ board = Constructed.board
    /\ gameState = Constructed.gameState
    /\ timer = Constructed.timer
    /\ timerInterval = Constructed.timerInterval
    /\ firstClick = Constructed.firstClick
    /\ flagCount = Constructed.flagCount
    /\ solverRunning = Constructed.solverRunning
    /\ solverInterval = Constructed.solverInterval
    /\ solverStats = Constructed.solverStats
    /\ startBtnDisabled = Constructed.startBtnDisabled
    /\ stopBtnDisabled = Constructed.stopBtnDisabled
    /\ stepBtnDisabled = Constructed.stepBtnDisabled
    /\ modalOpen = Constructed.modalOpen
    /\ clockTimers = Constructed.clockTimers
    /\ solverTimers = Constructed.solverTimers

\* The mine sets a first click at (row, col) can draw; a click that places no
\* mines draws nothing.
Draws(g, row, col) ==
    IF g.firstClick THEN MinePlacements(g, row, col) ELSE {{}}

\* The player-name modal is a full-window overlay above the page: while it is
\* shown, the pointer reaches none of the page's controls.
PageReachable == ~modalOpen

\* A left click on the cell element (row, col) of the rendered grid.
CellClick ==
    /\ PageReachable
    /\ \E cell \in DOMAIN board : \E m \in Draws(Cur, cell[1], cell[2]) :
        Becomes(handleCellClick(Cur, cell[1], cell[2], FALSE, m))

\* A right click on the cell element (row, col) of the rendered grid.
RightClick ==
    /\ PageReachable
    /\ \E cell \in DOMAIN board :
          /\ board[cell].isFlagged \/ flagCount < MaxFlags
          /\ Becomes(handleRightClick(Cur, cell[1], cell[2]))

\* The one-second interval of startTimer fires.
TimerTick ==
    /\ clockTimers > 0
    /\ timer < MaxTimer
    /\ Becomes([Cur EXCEPT !.timer = timer + 1])

\* A click on the reset button.
ResetClick ==
    /\ PageReachable
    /\ Becomes(resetGame(Cur))

\* A click on one of the difficulty buttons of Played.
DifficultyClick ==
    /\ PageReachable
    /\ \E difficulty \in Played : Becomes(changeDifficulty(Cur, difficulty))

\* A click on any difficulty button.
AnyDifficultyClick ==
    /\ PageReachable
    /\ \E difficulty \in DifficultyRequests : Becomes(changeDifficulty(Cur, difficulty))

\* A click on the enabled Start Solver button.
StartClick ==
    /\ PageReachable
    /\ ~startBtnDisabled
    /\ Becomes(startSolver(Cur))

\* A click on the enabled Stop Solver button.
StopClick ==
    /\ PageReachable
    /\ ~stopBtnDisabled
    /\ Becomes(stopSolver(Cur))

\* The moves makeEducatedGuess can return to a solverStep that calls it; a
\* step that does not call it draws nothing.
Guesses(g) ==
    IF g.gameState = "won" \/ g.gameState = "lost" \/ g.firstClick THEN {NoMove}
    ELSE IF findBestMove(g).action # "none" THEN {NoMove}
    ELSE makeEducatedGuess(g)

\* One run of solverStep from the current state.
StepNow ==
    LET config == Config(Cur)
    IN  \E m \in Draws(Cur, config.rows \div 2, config.cols \div 2) :
        \E guessMove \in Guesses(Cur) :
            Becomes(solverStep(Cur, m, guessMove))

\* A click on the enabled Single Step button.
StepClick ==
    /\ PageReachable
    /\ ~stepBtnDisabled
    /\ StepNow

\* The interval of startSolver fires.
SolverTick ==
    /\ solverTimers > 0
    /\ StepNow

\* The modal's Skip button (hidePlayerModal).
SkipClick ==
    /\ modalOpen
    /\ Becomes([Cur EXCEPT !.modalOpen = FALSE])

Next ==
    \/ CellClick
    \/ RightClick
    \/ TimerTick
    \/ ResetClick
    \/ DifficultyClick
    \/ StartClick
    \/ StopClick
    \/ StepClick
    \/ SolverTick
    \/ SkipClick

Spec == Init /\ [][Next]_vars

NextAll ==
    \/ CellClick
    \/ RightClick
    \/ TimerTick
    \/ ResetClick
    \/ AnyDifficultyClick
    \/ StartClick
    \/ StopClick
    \/ StepClick
    \/ SolverTick
    \/ SkipClick

SpecAll == Init /\ [][NextAll]_vars

\* A click on the difficulty button "hard".
HardClick ==
    /\ PageReachable
    /\ Becomes(changeDifficulty(Cur, "hard"))

\* A player who plays the hard board by left clicks and Single Step only (no
\* flags by hand, no auto-run): every behaviour of SpecHard is one of SpecAll.
NextHard ==
    \/ HardClick
    \/ CellClick
    \/ StepClick
    \/ SkipClick

SpecHard == Init /\ [][NextHard]_vars

(***************************************************************************)
(* Properties                                                              *)
(***************************************************************************)

Terminal(state) == state = "won" \/ state = "lost"

MineCells == {cell \in DOMAIN board : board[cell].isMine}

Hidden(cell) == ~board[cell].isRevealed /\ ~board[cell].isFlagged

Adjacent(a, b) ==
    /\ a # b
    /\ a[1] - b[1] \in {-1, 0, 1}
    /\ a[2] - b[2] \in {-1, 0, 1}

NoMineRevealed == \A cell \in DOMAIN board : ~(board[cell].isMine /\ board[cell].isRevealed)

\* C1: in every playing state a move of the deductive solver (findBasicMoves,
\* findConstraintMoves) is certain: a reveal never targets a mine and a flag
\* always targets a mine, whatever flags the player has placed by hand.
C1_DeductiveMovesCertain ==
    gameState = "playing" =>
        \A move \in {findBasicMoves(Cur), findConstraintMoves(Cur)} :
            /\ move.action = "reveal" => ~board[<<move.row, move.col>>].isMine
            /\ move.action = "flag" => board[<<move.row, move.col>>].isMine

\* C2: the cell of the first accepted reveal is never a mine: for every first
\* click and every outcome of placeMines the clicked cell holds no mine and the
\* click does not lose the game; and the step that takes the first click ends
\* with no mine revealed and the game not lost.
C2_FirstRevealNeverMine ==
    /\ [](firstClick =>
            \A cell \in DOMAIN board : \A m \in MinePlacements(Cur, cell[1], cell[2]) :
                /\ ~placeMines(Cur, m).board[cell].isMine
                /\ handleCellClick(Cur, cell[1], cell[2], TRUE, m).gameState # "lost")
    /\ [][firstClick /\ ~firstClick' => gameState' # "lost" /\ NoMineRevealed']_vars

C2_Witness ==
    /\ ~firstClick
    /\ gameState = "playing"
    /\ \E cell \in DOMAIN board : board[cell].isRevealed /\ board[cell].neighborMines > 0

\* C3: the number of mine cells is 0 while the game is ready and the
\* difficulty's mine count otherwise, and the set of mine cells changes only
\* when the first click places it and when a reset empties it.
C3_MineCountAndPlacementFixed ==
    /\ [](Cardinality(MineCells) = IF gameState = "ready" THEN 0 ELSE Config(Cur).mines)
    /\ [][MineCells' # MineCells =>
            \/ firstClick /\ ~firstClick' /\ MineCells = {}
            \/ gameState' = "ready" /\ MineCells' = {}]_vars

C3_Witness ==
    /\ gameState = "lost"
    /\ Cardinality(MineCells) = 2
    /\ flagCount > 0
    /\ timer > 0

\* The mines around a cell, counted from the coordinates.
MinesAround(cell) ==
    Cardinality({n \in DOMAIN board : Adjacent(cell, n) /\ board[n].isMine})

\* C4: once mines are placed, neighborMines of every cell that is no mine is
\* the number of mines among its in-grid neighbours, and no later step before
\* the next reset changes any cell's neighborMines.
C4_NeighborCountsExact ==
    /\ [](~firstClick =>
            \A cell \in DOMAIN board :
                ~board[cell].isMine => board[cell].neighborMines = MinesAround(cell))
    /\ [][~firstClick /\ ~firstClick' =>
            \A cell \in DOMAIN board :
                board'[cell].neighborMines = board[cell].neighborMines]_vars

C4_Witness ==
    /\ gameState = "playing"
    /\ \E cell \in DOMAIN board :
          /\ cell[1] = 0 /\ cell[2] = 0
          /\ ~board[cell].isMine /\ board[cell].neighborMines = 2
    /\ \E cell \in DOMAIN board : ~board[cell].isMine /\ board[cell].neighborMines = 1

\* The changes of gameState the state machine allows.
AllowedChanges ==
    { <<"ready", "playing">>, <<"playing", "won">>, <<"playing", "lost">>,
      <<"ready", "ready">>, <<"playing", "ready">>, <<"won", "ready">>,
      <<"lost", "ready">> }

\* Every assignment of a handler that changes gameState, from the value before
\* the handler on, is an allowed change.
AllowedLog(g) ==
    LET values == <<gameState>> \o g.stateLog
    IN  \A k \in 1 .. Len(values) - 1 :
            values[k + 1] # values[k] => <<values[k], values[k + 1]>> \in AllowedChanges

\* C5: every assignment to gameState, in every handler from every reachable
\* state, goes ready->playing, playing->won, playing->lost or to ready: never
\* lost->won, won->lost or ready->lost.
C5_StateChangesAllowed ==
    /\ \A cell \in DOMAIN board : \A m \in Draws(Cur, cell[1], cell[2]) :
          \A fromSolver \in BOOLEAN :
              AllowedLog(handleCellClick(Cur, cell[1], cell[2], fromSolver, m))
    /\ \A cell \in DOMAIN board : AllowedLog(handleRightClick(Cur, cell[1], cell[2]))
    /\ \A m \in Draws(Cur, Config(Cur).rows \div 2, Config(Cur).cols \div 2) :
          \A guessMove \in Guesses(Cur) : AllowedLog(solverStep(Cur, m, guessMove))
    /\ AllowedLog(resetGame(Cur))
    /\ AllowedLog(startSolver(Cur))
    /\ AllowedLog(stopSolver(Cur))
    /\ \A difficulty \in DifficultyRequests : AllowedLog(changeDifficulty(Cur, difficulty))

C5_Witness ==
    /\ gameState = "won"
    /\ timer = 0
    /\ currentDifficulty = "medium"

\* The cells, flagCount, timer and gameState of g are those of the current state.
SameGame(g) ==
    /\ g.board = board
    /\ g.flagCount = flagCount
    /\ g.timer = timer
    /\ g.gameState = gameState

\* C6: in a won or lost game a reveal request, a flag request and a solver
\* step each leave every cell, flagCount, timer and gameState as they are, and
\* the solver step leaves the solver stopped.
C6_FinishedGameFrozen ==
    Terminal(gameState) =>
        /\ \A cell \in DOMAIN board : \A fromSolver \in BOOLEAN :
              SameGame(handleCellClick(Cur, cell[1], cell[2], fromSolver, {}))
        /\ \A cell \in DOMAIN board : SameGame(handleRightClick(Cur, cell[1], cell[2]))
        /\ \A guessMove \in Guesses(Cur) :
              LET after == solverStep(Cur, {}, guessMove)
              IN  SameGame(after) /\ ~after.solverRunning /\ ~after.solverInterval

C6_Witness ==
    /\ gameState = "lost"
    /\ \E cell \in DOMAIN board : Hidden(cell) /\ ~board[cell].isMine
    /\ \E cell \in DOMAIN board : board[cell].isFlagged /\ ~board[cell].isRevealed

\* C7: no cell is revealed and flagged at the same time.
C7_NeverRevealedAndFlagged ==
    \A cell \in DOMAIN board : ~(board[cell].isRevealed /\ board[cell].isFlagged)

\* C8: the game is won exactly when mines have been placed and every cell
\* that is no mine is revealed; a board with a hidden safe cell is not won.
C8_WonIffAllSafeRevealed ==
    gameState = "won" <=>
        /\ ~firstClick
        /\ \A cell \in DOMAIN board : ~board[cell].isMine => board[cell].isRevealed

C8_Witness ==
    /\ gameState = "won"
    /\ currentDifficulty = "easy"

\* A zero-count cell that is no mine.
ZeroCell(cell) == ~board[cell].isMine /\ board[cell].neighborMines = 0

\* The 8-connected region of zero-count cells that contains the cells of S.
RECURSIVE ZeroRegion(_)
ZeroRegion(S) ==
    LET T == S \cup {n \in DOMAIN board : ZeroCell(n) /\ \E c \in S : Adjacent(c, n)}
    IN  IF T = S THEN S ELSE ZeroRegion(T)

\* The cells the fill reaches from the cells of S: from a zero-count cell it
\* goes on to the neighbours that are neither revealed nor flagged.
RECURSIVE FillFrom(_)
FillFrom(S) ==
    LET T == S \cup {n \in DOMAIN board :
                        Hidden(n) /\ \E c \in S : ZeroCell(c) /\ Adjacent(c, n)}
    IN  IF T = S THEN S ELSE FillFrom(T)

\* C9 as claimed: revealing a hidden zero-count cell reveals its whole
\* 8-connected zero-count region and the cells bordering the region, and no
\* mine, for every placement of flags.
C9_WholeRegionRevealed ==
    gameState = "playing" =>
        \A cell \in DOMAIN board :
            Hidden(cell) /\ ZeroCell(cell) =>
                LET after == revealCell(Cur, cell[1], cell[2])
                    region == ZeroRegion({cell})
                IN  /\ \A n \in DOMAIN board :
                          (n \in region \/ \E c \in region : Adjacent(c, n))
                              => after.board[n].isRevealed
                    /\ \A n \in DOMAIN board :
                          ~(after.board[n].isMine /\ after.board[n].isRevealed)

\* C9 amended: revealing a hidden, unflagged zero-count cell reveals exactly
\* the cells the fill reaches through hidden, unflagged zero-count cells (those
\* cells and their hidden, unflagged neighbours); it reveals no mine, removes no
\* flag and leaves the game state as it is.
C9_FillRevealsReachable ==
    gameState = "playing" =>
        \A cell \in DOMAIN board :
            Hidden(cell) /\ ZeroCell(cell) =>
                LET after == revealCell(Cur, cell[1], cell[2])
                    reached == FillFrom({cell})
                IN  /\ \A n \in DOMAIN board :
                          after.board[n] =
                              IF n \in reached
                              THEN [board[n] EXCEPT !.isRevealed = TRUE]
                              ELSE board[n]
                    /\ \A n \in reached : ~board[n].isMine
                    /\ after.gameState = "playing"

C9_Witness ==
    /\ gameState = "playing"
    /\ \E cell \in DOMAIN board :
          /\ Hidden(cell) /\ ZeroCell(cell)
          /\ Cardinality(FillFrom({cell})) >= 3
          /\ \E n \in ZeroRegion({cell}) : n \notin FillFrom({cell})

\* C10: when a move applied while the solver is running ends the game,
\* gamesPlayed grows by one, gamesWon grows by one exactly if the game is won,
\* and successRate is round(100 * gamesWon / gamesPlayed).
C10_RunCountedInStats ==
    [][solverRunning /\ ~Terminal(gameState) /\ Terminal(gameState') =>
          /\ solverStats'.gamesPlayed = solverStats.gamesPlayed + 1
          /\ solverStats'.gamesWon =
                solverStats.gamesWon + (IF gameState' = "won" THEN 1 ELSE 0)
          /\ solverStats'.successRate =
                RoundPercent(solverStats'.gamesWon, solverStats'.gamesPlayed)]_vars

\* The cells of a constraint, as a set of keys.
CellSet(constraint) == {constraint.cells[k] : k \in DOMAIN constraint.cells}

\* The moves of the deductive solver in the current state.
DeductiveMoves == {findBasicMoves(Cur), findConstraintMoves(Cur)}

\* C11: when constraint A's cells are strictly contained in constraint B's and
\* no single constraint is all safe or all mines, the deductive solver returns
\* a reveal of a cell of B minus A if the mine counts are equal, and a flag of
\* such a cell if their difference is the number of cells of B minus A.
C11_SubsetRuleApplied ==
    LET constraints == buildConstraints(Cur)
    IN  gameState = "playing" /\ solveConstraints(constraints) = <<>> =>
            \A a, b \in DOMAIN constraints :
                LET rest == CellSet(constraints[b]) \ CellSet(constraints[a])
                    difference == constraints[b].mineCount - constraints[a].mineCount
                    returns(action) ==
                        \E move \in DeductiveMoves :
                            /\ move.action = action
                            /\ ToKey(move.row, move.col) \in rest
                IN  CellSet(constraints[a]) \subseteq CellSet(constraints[b]) /\ rest # {} =>
                        /\ difference = 0 => returns("reveal")
                        /\ difference = Cardinality(rest) => returns("flag")

\* The game g has the fields of the current state.
SameObject(g) ==
    [g EXCEPT !.stateLog = << >>, !.placeMinesCalls = 0,
              !.revealCellCalls = 0, !.revealLog = << >>] = Cur

\* C12: once the solver has been started the auto-run ends.  A tick that
\* leaves the game object exactly as it is will do so again at every later
\* tick, and such a run never ends; so while the solver is running and the
\* game is neither won nor lost, a tick of the interval changes something.
C12_AutoRunEnds ==
    solverRunning /\ ~Terminal(gameState) =>
        \E m \in Draws(Cur, Config(Cur).rows \div 2, Config(Cur).cols \div 2) :
            \E guessMove \in Guesses(Cur) :
                ~SameObject(solverStep(Cur, m, guessMove))

\* The opening cell of the solver: (floor(rows / 2), floor(cols / 2)).
Centre == <<Config(Cur).rows \div 2, Config(Cur).cols \div 2>>

\* C13: on a fresh game (ready, nothing revealed) a solver step reveals the
\* centre cell, the mines are placed on other cells, and the game is no longer
\* ready afterwards.
C13_OpeningMoveRevealsCentre ==
    gameState = "ready" /\ firstClick =>
        \A m \in MinePlacements(Cur, Centre[1], Centre[2]) :
            LET after == solverStep(Cur, m, NoMove)
            IN  /\ after.board[Centre].isRevealed
                /\ ~after.board[Centre].isMine
                /\ {cell \in DOMAIN after.board : after.board[cell].isMine} = m
                /\ after.gameState # "ready"

\* The board of the next state is the fresh board of a reset.
FreshBoard ==
    /\ gameState' = "ready" /\ firstClick' /\ ~solverRunning'
    /\ \A cell \in DOMAIN board' :
          ~board'[cell].isMine /\ ~board'[cell].isRevealed /\ ~board'[cell].isFlagged

\* The step flags one cell that was neither flagged nor revealed, and changes
\* nothing else of the board.
OneFlag ==
    \E cell \in DOMAIN board :
        /\ ~board[cell].isFlagged /\ ~board[cell].isRevealed
        /\ board' = [board EXCEPT ![cell].isFlagged = TRUE]
        /\ flagCount' = flagCount + 1
        /\ gameState' = gameState

\* The step is one reveal request: the effect of one handleCellClick.
OneReveal ==
    \E cell \in DOMAIN board : \E m \in Draws(Cur, cell[1], cell[2]) :
        LET after == handleCellClick(Cur, cell[1], cell[2], TRUE, m)
        IN  /\ board' = after.board
            /\ flagCount' = after.flagCount
            /\ gameState' = after.gameState

\* C14: while the solver is running, a manual reveal request and a manual flag
\* request leave every cell, flagCount, timer and gameState as they are; a step
\* that changes the board during a run is a reset or a tick, and a tick applies
\* one move: one reveal request or one flag.
C14_OnlyTicksMutateDuringRun ==
    /\ [](solverRunning =>
            \A cell \in DOMAIN board :
                /\ \A m \in Draws(Cur, cell[1], cell[2]) :
                      SameGame(handleCellClick(Cur, cell[1], cell[2], FALSE, m))
                /\ SameGame(handleRightClick(Cur, cell[1], cell[2])))
    /\ [][solverRunning /\ board' # board => FreshBoard \/ OneFlag \/ OneReveal]_vars

C14_Witness ==
    /\ solverRunning
    /\ gameState = "playing"
    /\ \E cell \in DOMAIN board : board[cell].isFlagged
    /\ Cardinality({cell \in DOMAIN board : board[cell].isRevealed}) >= 2

\* C15: after stopSolver no tick of the auto-run runs a solver step until the
\* next startSolver: whenever the solver is not running no interval of
\* startSolver is live, and stopSolver called in any state leaves none live.
C15_NoTickAfterStop ==
    /\ ~solverRunning => solverTimers = 0 /\ ~solverInterval
    /\ ~stopSolver(Cur).solverRunning
    /\ stopSolver(Cur).solverTimers = 0
    /\ ~stopSolver(Cur).solverInterval

\* A run in progress, which stopSolver ends.
C15_Witness ==
    /\ solverRunning
    /\ solverTimers = 1
    /\ gameState = "playing"
    /\ timer > 0
    /\ stopSolver(Cur).solverTimers = 0

\* C16: a request to switch to a difficulty key the table lacks is reported to
\* the caller as an InvalidDifficulty error.
C16_UnknownDifficultyReported ==
    \A difficulty \in DifficultyRequests \ DOMAIN difficulties :
        changeDifficultyReport(Cur, difficulty) = "InvalidDifficulty"

\* The coordinates just outside the grid of the current board.
OutOfGrid ==
    ((-1 .. Config(Cur).rows) \X (-1 .. Config(Cur).cols)) \ Cells(Config(Cur))

\* C17: a reveal request and a flag request for a coordinate outside the grid
\* are rejected without an exception (an exception is thrown before any
\* assignment, so the board, flagCount and gameState are unchanged either way).
C17_OutOfGridRejected ==
    \A rc \in OutOfGrid :
        /\ ~handleCellClickThrows(Cur, rc[1], rc[2], FALSE)
        /\ ~handleRightClickThrows(Cur, rc[1], rc[2])

\* C18: in a won game every cell that is no mine is revealed, the flagged
\* cells are exactly the mines, and flagCount is the difficulty's mine count.
C18_WonBoardFlagged ==
    gameState = "won" =>
        /\ \A cell \in DOMAIN board :
              IF board[cell].isMine
              THEN board[cell].isFlagged
              ELSE board[cell].isRevealed /\ ~board[cell].isFlagged
        /\ flagCount = Config(Cur).mines

C18_Witness ==
    /\ gameState = "won"
    /\ modalOpen
    /\ flagCount = 2
    /\ timer > 0

\* C19: in a lost game every mine is revealed; revealing a cell that is no
\* mine never loses the game, whatever the flood fill reaches; and a step that
\* loses the game is one reveal request whose target cell is a hidden mine
\* (so no flag is set or removed by it).
C19_LostOnlyByMineReveal ==
    /\ [](gameState = "lost" => \A cell \in MineCells : board[cell].isRevealed)
    /\ [](gameState = "playing" =>
            \A cell \in DOMAIN board :
                ~board[cell].isMine => revealCell(Cur, cell[1], cell[2]).gameState # "lost")
    /\ [][gameState # "lost" /\ gameState' = "lost" =>
            \E cell \in MineCells :
                /\ Hidden(cell)
                /\ board' = revealCell(Cur, cell[1], cell[2]).board
                /\ flagCount' = flagCount]_vars

C19_Witness ==
    /\ gameState = "lost"
    /\ currentDifficulty = "medium"
    /\ Cardinality({cell \in DOMAIN board :
                        board[cell].isRevealed /\ ~board[cell].isMine}) >= 2

FlagsOnMines == \A cell \in DOMAIN board : board[cell].isFlagged => board[cell].isMine

\* C21: in every playing state with all flags on mines, the cell a move of the
\* pattern matcher (findPatternMoves) proposes to reveal is not a mine.
C21_PatternMovesSafe ==
    gameState = "playing" /\ FlagsOnMines =>
        (findPatternMoves(Cur).action = "reveal" =>
            ~board[<<findPatternMoves(Cur).row, findPatternMoves(Cur).col>>].isMine)

\* The border cells whose estimate in calculateProbabilities is the fraction p.
BorderCellsAt(p) ==
    {cell \in DOMAIN board :
        /\ \E k \in DOMAIN findBorderCells(Cur) : findBorderCells(Cur)[k] = cell
        /\ Same(calculateProbabilities(Cur, findBorderCells(Cur))[ToKey(cell[1], cell[2])], p)}

\* C22: in the probability stage (findTankMoves), when some border cell's
\* estimate is exactly 0 or exactly 1 the move returned is deduced: a reveal of
\* a border cell whose estimate is 0 or a flag of one whose estimate is 1.
C22_CertainEstimatesDeduced ==
    gameState = "playing" /\ BorderCellsAt(<<0, 1>>) \cup BorderCellsAt(<<1, 1>>) # {} =>
        \/ /\ findTankMoves(Cur).action = "reveal"
           /\ <<findTankMoves(Cur).row, findTankMoves(Cur).col>> \in BorderCellsAt(<<0, 1>>)
        \/ /\ findTankMoves(Cur).action = "flag"
           /\ <<findTankMoves(Cur).row, findTankMoves(Cur).col>> \in BorderCellsAt(<<1, 1>>)

\* The sum and the product of the values of a function with a finite domain.
RECURSIVE SumFn(_)
SumFn(f) ==
    IF DOMAIN f = {} THEN 0
    ELSE LET x == CHOOSE x \in DOMAIN f : TRUE
         IN  f[x] + SumFn([y \in DOMAIN f \ {x} |-> f[y]])

RECURSIVE ProdFn(_)
ProdFn(f) ==
    IF DOMAIN f = {} THEN 1
    ELSE LET x == CHOOSE x \in DOMAIN f : TRUE
         IN  f[x] * ProdFn([y \in DOMAIN f \ {x} |-> f[y]])

\* The border cells of the current board, from the coordinates.
BorderCells ==
    {cell \in DOMAIN board :
        Hidden(cell) /\ \E n \in DOMAIN board : Adjacent(cell, n) /\ board[n].isRevealed}

\* The constraint of a revealed numbered cell n: its hidden cells and requiredMines.
HiddenAround(n) == {c \in DOMAIN board : Adjacent(n, c) /\ Hidden(c)}
RequiredMines(n) ==
    board[n].neighborMines
        - Cardinality({c \in DOMAIN board : Adjacent(n, c) /\ board[c].isFlagged})

\* The constraints touching a cell, each named by its revealed numbered cell.
Touching(cell) ==
    {n \in DOMAIN board :
        /\ Adjacent(cell, n) /\ board[n].isRevealed /\ board[n].neighborMines > 0
        /\ HiddenAround(n) # {}}

\* The arithmetic mean of requiredMines / |hidden| over the constraints of T,
\* as a fraction over the product of the denominators.
MeanOfRatios(T) ==
    LET denominators == [n \in T |-> Cardinality(HiddenAround(n))]
        common == ProdFn(denominators)
    IN  << SumFn([n \in T |-> RequiredMines(n) * (common \div denominators[n])]),
           Cardinality(T) * common >>

\* The sum of requiredMines over the sum of |hidden| over the constraints of T.
PooledRatio(T) ==
    << SumFn([n \in T |-> RequiredMines(n)]),
       SumFn([n \in T |-> Cardinality(HiddenAround(n))]) >>

\* The estimate calculateProbabilities stores for a cell.
Estimate(cell) ==
    calculateProbabilities(Cur, findBorderCells(Cur))[ToKey(cell[1], cell[2])]

\* C23 as claimed: the estimate of every border cell is the arithmetic mean,
\* over the constraints touching it, of requiredMines / |hidden|, clamped to
\* [0, 1] (compared as fractions by cross-multiplication).
C23_EstimateIsMeanOfRatios ==
    gameState = "playing" =>
        \A cell \in BorderCells :
            Touching(cell) # {} =>
                Same(Estimate(cell), Clamp(MeanOfRatios(Touching(cell))))

\* C23 amended: the keys of the estimates are the border cells, and the
\* estimate of a border cell is the sum of requiredMines over the constraints
\* touching it divided by the sum of their |hidden|, clamped to [0, 1]; it is
\* 1/2 for a border cell no constraint touches.
C23_EstimateIsPooledRatio ==
    gameState = "playing" =>
        /\ DOMAIN calculateProbabilities(Cur, findBorderCells(Cur))
              = {ToKey(cell[1], cell[2]) : cell \in BorderCells}
        /\ \A cell \in BorderCells :
              Same(Estimate(cell),
                   IF Touching(cell) # {} THEN Clamp(PooledRatio(Touching(cell))) ELSE Half)

\* A border cell touched by two constraints of different sizes, next to a flag.
C23_Witness ==
    /\ gameState = "playing"
    /\ \E cell \in BorderCells : \E a, b \in Touching(cell) :
          /\ Cardinality(HiddenAround(a)) # Cardinality(HiddenAround(b))
          /\ RequiredMines(a) < board[a].neighborMines
          /\ ~Same(Estimate(cell), <<0, 1>>) /\ ~Same(Estimate(cell), <<1, 1>>)

\* Cell a comes before cell b in row-major order, or is b.
RowMajorLeq(a, b) == a[1] < b[1] \/ (a[1] = b[1] /\ a[2] <= b[2])

\* The border cell the guess is to go to: minimal estimate, and first in
\* row-major order among the border cells of minimal estimate.
LeastRisky ==
    LET minimal == {cell \in BorderCells :
                       \A other \in BorderCells : ~Less(Estimate(other), Estimate(cell))}
    IN  CHOOSE cell \in minimal : \A other \in minimal : RowMajorLeq(cell, other)

\* The solver has to guess: the game is on and findBestMove finds no move.
HasToGuess == gameState = "playing" /\ ~firstClick /\ findBestMove(Cur).action = "none"

\* C24: when the solver has to guess and a border cell exists, makeEducatedGuess
\* proposes reveal on the border cell of minimal estimate, the first in
\* row-major order among ties; when no border cell exists (and a hidden,
\* unflagged cell does) it proposes reveal on a hidden, unflagged cell.
C24_GuessIsLeastRisky ==
    HasToGuess =>
        IF BorderCells # {}
        THEN makeEducatedGuess(Cur) =
                {[row |-> LeastRisky[1], col |-> LeastRisky[2], action |-> "reveal"]}
        ELSE (\E cell \in DOMAIN board : Hidden(cell)) =>
                \A move \in makeEducatedGuess(Cur) :
                    move.action = "reveal" /\ Hidden(<<move.row, move.col>>)

\* A reveal request on a cell is accepted: the game is not finished, the
\* request is not a manual one during a run, and the cell is hidden and unflagged.
Accepted(cell, fromSolver) ==
    ~Terminal(gameState) /\ ~(solverRunning /\ ~fromSolver) /\ Hidden(cell)

\* The game after a handler that called placeMines: first click taken, the
\* difficulty's mines on the board, none on the revealed target cell.
MinesJustPlaced(after, cell) ==
    /\ ~after.firstClick
    /\ after.board[cell].isRevealed /\ ~after.board[cell].isMine
    /\ Cardinality({c \in DOMAIN after.board : after.board[c].isMine}) = Config(after).mines

\* The mines of the game after a handler are those of the current state.
MinesKept(after) == {c \in DOMAIN after.board : after.board[c].isMine} = MineCells

\* C25: within one game placeMines runs exactly once, at the first accepted
\* reveal (a click or the solver's opening move): a handler calls it once if
\* the game's first click is still to come and the reveal is accepted, and not
\* at all otherwise; after the call the first click is taken, which only a
\* reset undoes; a request that is not accepted places no mines.
C25_MinesPlacedOncePerGame ==
    /\ [](\A cell \in DOMAIN board : \A fromSolver \in BOOLEAN :
            \A m \in Draws(Cur, cell[1], cell[2]) :
                LET after == handleCellClick(Cur, cell[1], cell[2], fromSolver, m)
                IN  IF firstClick /\ Accepted(cell, fromSolver)
                    THEN after.placeMinesCalls = 1 /\ MinesJustPlaced(after, cell)
                    ELSE after.placeMinesCalls = 0 /\ MinesKept(after))
    /\ [](\A m \in Draws(Cur, Centre[1], Centre[2]) : \A guessMove \in Guesses(Cur) :
            LET after == solverStep(Cur, m, guessMove)
            IN  IF firstClick /\ Accepted(Centre, TRUE)
                THEN after.placeMinesCalls = 1 /\ MinesJustPlaced(after, Centre)
                ELSE after.placeMinesCalls = 0 /\ MinesKept(after))
    /\ [](/\ \A cell \in DOMAIN board :
                handleRightClick(Cur, cell[1], cell[2]).placeMinesCalls = 0
          /\ resetGame(Cur).placeMinesCalls = 0
          /\ startSolver(Cur).placeMinesCalls = 0
          /\ stopSolver(Cur).placeMinesCalls = 0
          /\ \A difficulty \in DifficultyRequests :
                changeDifficulty(Cur, difficulty).placeMinesCalls = 0)
    /\ [][~firstClick /\ firstClick' => gameState' = "ready" /\ MineCells' = {}]_vars
    /\ [][~firstClick /\ ~firstClick' => MineCells' = MineCells]_vars

\* A game in which reveals followed the first one.
C25_Witness ==
    /\ gameState = "playing"
    /\ ~firstClick
    /\ flagCount > 0
    /\ Cardinality({cell \in DOMAIN board : board[cell].isRevealed}) >= 3
    /\ \E cell \in DOMAIN board : Accepted(cell, FALSE)

\* The revealed numbered cells whose constraint (their hidden cells, with
\* requiredMines) has a hidden cell.
Constraints ==
    {n \in DOMAIN board :
        board[n].isRevealed /\ board[n].neighborMines > 0 /\ HiddenAround(n) # {}}

\* The hidden cells of a constraint with requiredMines = 0, and those of a
\* constraint with requiredMines = |hidden|.
DecidedSafe ==
    {c \in DOMAIN board : \E n \in Constraints :
        c \in HiddenAround(n) /\ RequiredMines(n) = 0}
DecidedMine ==
    {c \in DOMAIN board : \E n \in Constraints :
        c \in HiddenAround(n) /\ RequiredMines(n) = Cardinality(HiddenAround(n))}

\* The game after a step has the move applied: the cell revealed, or the cell
\* flagged and nothing else of the board changed.
MoveApplied(after, move) ==
    IF move.action = "reveal"
    THEN Hidden(<<move.row, move.col>>) /\ after.board[<<move.row, move.col>>].isRevealed
    ELSE /\ Hidden(<<move.row, move.col>>)
         /\ after.board = [board EXCEPT ![<<move.row, move.col>>].isFlagged = TRUE]
         /\ after.flagCount = flagCount + 1

\* C26: a solver step on a game in progress guesses only when no stage yields
\* a move.  When some constraint has requiredMines = 0 or requiredMines =
\* |hidden|, the step applies a deductive move on a cell of such a constraint
\* and asks for no guess; a pattern move is applied only when deduction finds
\* nothing, a probability move only when the pattern matcher finds nothing
\* either, and a guess only when all of them find nothing; the move applied is
\* the one of the first stage that finds one.
C26_GuessOnlyAfterStagesFail ==
    gameState = "playing" /\ ~firstClick =>
        \A guessMove \in Guesses(Cur) :
            LET after == solverStep(Cur, {}, guessMove)
                move == findBestMove(Cur)
                none(stageMove) == stageMove.action = "none"
            IN  /\ DecidedSafe \cup DecidedMine # {} =>
                      /\ move.strategy \in {"Basic Logic", "Constraint Solving"}
                      /\ move.action = "reveal" => <<move.row, move.col>> \in DecidedSafe
                      /\ move.action = "flag" => <<move.row, move.col>> \in DecidedMine
                      /\ guessMove = NoMove
                /\ move.strategy = "Constraint Solving" => none(findBasicMoves(Cur))
                /\ move.strategy = "Pattern Recognition" =>
                      /\ \A deduced \in DeductiveMoves : none(deduced)
                      /\ DecidedSafe \cup DecidedMine = {}
                      /\ [row |-> move.row, col |-> move.col, action |-> move.action]
                            = findPatternMoves(Cur)
                /\ move.strategy = "Tank Solver" =>
                      /\ \A deduced \in DeductiveMoves : none(deduced)
                      /\ none(findPatternMoves(Cur))
                /\ ~none(move) => guessMove = NoMove /\ MoveApplied(after, move)
                /\ ~none(guessMove) =>
                      /\ none(move)
                      /\ \A deduced \in DeductiveMoves : none(deduced)
                      /\ none(findPatternMoves(Cur)) /\ none(findTankMoves(Cur))
                      /\ guessMove \in makeEducatedGuess(Cur)
                      /\ MoveApplied(after, guessMove)

\* A board on which both the deduction and the pattern matcher find a move.
C26_Witness ==
    /\ gameState = "playing"
    /\ ~stepBtnDisabled
    /\ findBasicMoves(Cur).action = "flag"
    /\ findPatternMoves(Cur).action = "reveal"
    /\ findPatternMoves(Cur).row # findBasicMoves(Cur).row

\* C27: the game timer's interval is live exactly while the game is playing,
\* and there is never more than one; an interval is created only by the step
\* that takes the first click; endGame and resetGame leave none live; the
\* timer value is 0 while ready, and it changes only by a tick of a game that
\* is playing (by one) and by a reset (to 0), so it is frozen once won or lost.
C27_TimerRunsWhilePlaying ==
    /\ [](timerInterval <=> gameState = "playing")
    /\ [](clockTimers = IF gameState = "playing" THEN 1 ELSE 0)
    /\ [](gameState = "ready" => timer = 0)
    /\ [](\A won \in BOOLEAN :
            endGame(Cur, won).clockTimers = 0 /\ ~endGame(Cur, won).timerInterval)
    /\ [](resetGame(Cur).clockTimers = 0 /\ ~resetGame(Cur).timerInterval)
    /\ [][clockTimers' > clockTimers => firstClick /\ ~firstClick']_vars
    /\ [][timer' # timer =>
            \/ gameState = "playing" /\ gameState' = "playing" /\ timer' = timer + 1
            \/ gameState' = "ready" /\ timer' = 0]_vars

\* A lost game whose clock ran and then stopped.
C27_Witness ==
    /\ gameState = "lost"
    /\ timer > 0
    /\ clockTimers = 0
    /\ ~timerInterval

\* Counters of a session in which the solver finished games.
StatsValues ==
    {solverStats,
     [gamesPlayed |-> 1, gamesWon |-> 1, successRate |-> 100],
     [gamesPlayed |-> 3, gamesWon |-> 2, successRate |-> 67]}

\* C28: resetGame, changeDifficulty, startSolver and stopSolver leave
\* solverStats (gamesPlayed, gamesWon, successRate) as it is, in every
\* reachable state and whatever the counters' values are.
C28_StatsKeptAcrossRuns ==
    \A stats \in StatsValues :
        LET g == [Cur EXCEPT !.solverStats = stats]
        IN  /\ resetGame(g).solverStats = stats
            /\ startSolver(g).solverStats = stats
            /\ stopSolver(g).solverStats = stats
            /\ \A difficulty \in DifficultyRequests :
                  changeDifficulty(g, difficulty).solverStats = stats

\* A finished game with the solver stopped: Start Solver resets it and starts
\* the next run.
C28_Witness ==
    /\ Terminal(gameState)
    /\ ~startBtnDisabled
    /\ ~modalOpen
    /\ startSolver(Cur).gameState = "ready"
    /\ startSolver(Cur).solverRunning

\* C30: in a game that is neither won nor lost, a reveal request on a cell
\* that is revealed or flagged, and a flag request on a revealed cell, leave
\* every field of the game as it is (cells, mines, flagCount, gameState,
\* firstClick, timer and the rest), place no mines and throw nothing.
C30_RequestsOnSettledCellsIgnored ==
    ~Terminal(gameState) =>
        \A cell \in DOMAIN board :
            /\ board[cell].isRevealed \/ board[cell].isFlagged =>
                  \A fromSolver \in BOOLEAN : \A m \in Draws(Cur, cell[1], cell[2]) :
                      /\ handleCellClick(Cur, cell[1], cell[2], fromSolver, m) = Cur
                      /\ ~handleCellClickThrows(Cur, cell[1], cell[2], fromSolver)
            /\ board[cell].isRevealed =>
                  /\ handleRightClick(Cur, cell[1], cell[2]) = Cur
                  /\ ~handleRightClickThrows(Cur, cell[1], cell[2])

\* A game in progress, the solver idle, with a revealed numbered cell, and a
\* flagged cell that a reveal would otherwise open.
C30_Witness ==
    /\ gameState = "playing"
    /\ ~solverRunning
    /\ \E cell \in DOMAIN board : board[cell].isRevealed /\ board[cell].neighborMines > 0
    /\ \E cell \in DOMAIN board :
          board[cell].isFlagged /\ ~board[cell].isRevealed /\ ~board[cell].isMine

\* The revealed numbered cells with a hidden neighbour, in row-major order.
ConstraintCells == SelectSeq(CellSeq(Config(Cur)), LAMBDA n : n \in Constraints)

\* C31: buildConstraints returns one constraint for every revealed cell with
\* neighborMines > 0 and a hidden, unflagged neighbour, in row-major order of
\* those cells, and no other; the cells of a constraint are the keys of the
\* hidden, unflagged neighbours, each once, and its mineCount is neighborMines
\* minus the number of flagged neighbours.
C31_ConstraintsExact ==
    /\ Len(buildConstraints(Cur)) = Len(ConstraintCells)
    /\ Len(ConstraintCells) = Cardinality(Constraints)
    /\ \A k \in DOMAIN buildConstraints(Cur) :
          /\ {FromKey(key) : key \in CellSet(buildConstraints(Cur)[k])}
                = HiddenAround(ConstraintCells[k])
          /\ Len(buildConstraints(Cur)[k].cells)
                = Cardinality(HiddenAround(ConstraintCells[k]))
          /\ buildConstraints(Cur)[k].mineCount = RequiredMines(ConstraintCells[k])

\* A board with two constraints of different cells, one of them next to a flag.
C31_Witness ==
    /\ gameState = "playing"
    /\ \E a, b \in Constraints :
          /\ HiddenAround(a) # HiddenAround(b)
          /\ RequiredMines(a) < board[a].neighborMines
          /\ RequiredMines(b) = board[b].neighborMines

\* What one flood fill did, from the game after it: no cell was marked twice,
\* every cell marked was hidden and unflagged before, the cells marked are
\* those the fill itself revealed, at most rows x cols of them, and revealCell
\* was called at most once from outside and eight times from each cell marked.
FillBounded(after) ==
    /\ \A j, k \in DOMAIN after.revealLog : j # k => after.revealLog[j] # after.revealLog[k]
    /\ \A k \in DOMAIN after.revealLog : Hidden(after.revealLog[k])
    /\ \A cell \in DOMAIN board :
          ~board[cell].isRevealed /\ after.board[cell].isRevealed =>
              \/ \E k \in DOMAIN after.revealLog : after.revealLog[k] = cell
              \/ after.gameState = "lost" /\ after.board[cell].isMine
    /\ Len(after.revealLog) <= Config(after).rows * Config(after).cols
    /\ after.revealCellCalls <= 1 + 8 * Len(after.revealLog)

\* C32: every revealCell call terminates, on every board: the call has a
\* result, in which each cell was marked revealed at most once, so the calls
\* that change a cell are at most rows x cols (and all calls at most eight
\* times as many, plus one); the same for the fill of a reveal request.
C32_FloodFillTerminates ==
    /\ gameState = "playing" =>
          \A cell \in DOMAIN board :
              /\ FillBounded(revealCell(Cur, cell[1], cell[2]))
              /\ revealCell(Cur, cell[1], cell[2]).revealCellCalls >= 1
    /\ \A cell \in DOMAIN board : \A m \in Draws(Cur, cell[1], cell[2]) :
          FillBounded(handleCellClick(Cur, cell[1], cell[2], TRUE, m))

\* A game in progress where one reveal fills three cells, with calls of
\* revealCell that find their cell revealed already.
C32_Witness ==
    /\ gameState = "playing"
    /\ \E cell \in DOMAIN board :
          /\ Hidden(cell)
          /\ Len(revealCell(Cur, cell[1], cell[2]).revealLog) >= 3
          /\ revealCell(Cur, cell[1], cell[2]).revealCellCalls >= 5

\* The game g is a fresh game of its difficulty.
FreshGame(g) ==
    /\ g.gameState = "ready" /\ g.firstClick
    /\ g.timer = 0 /\ g.flagCount = 0
    /\ ~g.timerInterval /\ g.clockTimers = 0
    /\ ~g.solverInterval /\ g.solverTimers = 0 /\ ~g.solverRunning
    /\ DOMAIN g.board =
          (0 .. difficulties[g.currentDifficulty].rows - 1)
              \X (0 .. difficulties[g.currentDifficulty].cols - 1)
    /\ \A cell \in DOMAIN g.board :
          g.board[cell] = [isMine |-> FALSE, isRevealed |-> FALSE, isFlagged |-> FALSE,
                           neighborMines |-> 0]

\* C33: after resetGame, and after changeDifficulty with a key of the table,
\* from any reachable state: gameState is ready, firstClick is set, timer and
\* flagCount are 0, no timer interval and no solver interval is live, the
\* solver is not running, and the board has the rows and columns of the
\* current difficulty (the requested one), every cell hidden, unflagged, no
\* mine, neighborMines 0.
C33_ResetGivesFreshGame ==
    /\ FreshGame(resetGame(Cur))
    /\ resetGame(Cur).currentDifficulty = currentDifficulty
    /\ \A difficulty \in DOMAIN difficulties :
          /\ FreshGame(changeDifficulty(Cur, difficulty))
          /\ changeDifficulty(Cur, difficulty).currentDifficulty = difficulty

\* A game in the middle of a solver run, with the clock advanced and a flag set.
C33_Witness ==
    /\ gameState = "playing"
    /\ solverRunning /\ solverTimers = 1
    /\ timer > 0 /\ flagCount > 0
    /\ currentDifficulty = "medium"
    /\ \E cell \in DOMAIN board : board[cell].isRevealed

\* C34: an accepted flag toggle (the game neither won nor lost, the solver
\* not running, the cell not revealed) flips the cell's isFlagged, moves
\* flagCount by one accordingly, and changes nothing else: no other cell, no
\* isMine, isRevealed or neighborMines, not gameState nor any other field; a
\* second toggle of the same cell restores the state, flagCount included.
C34_FlagToggleIsLocal ==
    ~Terminal(gameState) /\ ~solverRunning =>
        \A cell \in DOMAIN board :
            ~board[cell].isRevealed =>
                LET after == handleRightClick(Cur, cell[1], cell[2])
                IN  /\ after =
                          [Cur EXCEPT
                              !.board = [board EXCEPT
                                            ![cell].isFlagged = ~board[cell].isFlagged],
                              !.flagCount =
                                  IF board[cell].isFlagged THEN flagCount - 1
                                  ELSE flagCount + 1]
                    /\ handleRightClick(after, cell[1], cell[2]) = Cur

\* A game in progress with the clock advanced, one cell flagged, another hidden.
C34_Witness ==
    /\ gameState = "playing"
    /\ ~solverRunning
    /\ timer > 0
    /\ flagCount = 1
    /\ \E cell \in DOMAIN board : board[cell].isFlagged /\ ~board[cell].isRevealed
    /\ \E cell \in DOMAIN board : Hidden(cell)

\* C35: in every reachable state flagCount is the number of flagged cells.
C35_FlagCountIsFlaggedCells ==
    flagCount = Cardinality({cell \in DOMAIN board : board[cell].isFlagged})

\* A solver run in progress with two flags, one on a mine and one on a safe cell.
C35_Witness ==
    /\ gameState = "playing"
    /\ solverRunning
    /\ flagCount = 2
    /\ \E cell \in DOMAIN board : board[cell].isFlagged /\ board[cell].isMine
    /\ \E cell \in DOMAIN board : board[cell].isFlagged /\ ~board[cell].isMine

\* C36: in every playing state in which every flagged cell is a mine, the
\* move of findBasicMoves (and of findConstraintMoves) is correct: a reveal
\* targets a cell that is no mine, a flag a mine.  And a solver step that
\* applies a deductive move in such a state does not lose the game and leaves
\* every flag on a mine; a fresh game has no flags, so in a game whose flags
\* all come from deductive moves every flag is on a mine and no deductive
\* move loses.
C36_BasicMovesCorrectUnderTrueFlags ==
    gameState = "playing" /\ FlagsOnMines =>
        /\ \A move \in DeductiveMoves :
              /\ move.action = "reveal" => ~board[<<move.row, move.col>>].isMine
              /\ move.action = "flag" => board[<<move.row, move.col>>].isMine
        /\ findBestMove(Cur).strategy \in {"Basic Logic", "Constraint Solving"} =>
              LET after == solverStep(Cur, {}, NoMove)
              IN  /\ after.gameState # "lost"
                  /\ \A cell \in DOMAIN after.board :
                        after.board[cell].isFlagged => after.board[cell].isMine
                  /\ after.board # board

\* A game in progress with a flag on a mine, from which findBasicMoves deduces
\* a reveal.
C36_Witness ==
    /\ gameState = "playing"
    /\ FlagsOnMines
    /\ flagCount >= 1
    /\ findBasicMoves(Cur).action = "reveal"
    /\ \E cell \in DOMAIN board : Hidden(cell) /\ board[cell].isMine

\* The hidden, unflagged cells of a board.
HiddenCells(b) == {cell \in DOMAIN b : ~b[cell].isRevealed /\ ~b[cell].isFlagged}

\* The cell a step works on: that of findBestMove's move, or of the guess.
StepTarget(guessMove) ==
    IF findBestMove(Cur).action # "none"
    THEN <<findBestMove(Cur).row, findBestMove(Cur).col>>
    ELSE <<guessMove.row, guessMove.col>>

\* C37: after the first reveal, a solver step in a game that is playing and
\* has a hidden, unflagged cell finds a move or a guess, its target is a
\* hidden, unflagged cell, the step reveals or flags that cell, and there are
\* fewer hidden, unflagged cells after the step than before; the step leaves
\* the solver's run state alone unless it ends the game.  With no hidden,
\* unflagged cell left the step stops the solver and changes nothing else.
C37_StepsMakeProgress ==
    gameState = "playing" /\ ~firstClick =>
        \A guessMove \in Guesses(Cur) :
            LET after == solverStep(Cur, {}, guessMove)
            IN  IF HiddenCells(board) # {}
                THEN /\ findBestMove(Cur).action # "none" \/ guessMove.action # "none"
                     /\ StepTarget(guessMove) \in HiddenCells(board)
                     /\ \/ after.board[StepTarget(guessMove)].isRevealed
                        \/ after.board[StepTarget(guessMove)].isFlagged
                     /\ HiddenCells(after.board) \subseteq HiddenCells(board)
                     /\ Cardinality(HiddenCells(after.board)) < Cardinality(HiddenCells(board))
                     /\ after.gameState = "playing" =>
                           /\ after.solverRunning = solverRunning
                           /\ after.solverTimers = solverTimers
                ELSE /\ findBestMove(Cur).action = "none" /\ guessMove.action = "none"
                     /\ SameObject([after EXCEPT !.solverRunning = solverRunning,
                                                 !.solverInterval = solverInterval,
                                                 !.solverTimers = solverTimers,
                                                 !.startBtnDisabled = startBtnDisabled,
                                                 !.stopBtnDisabled = stopBtnDisabled,
                                                 !.stepBtnDisabled = stepBtnDisabled])
                     /\ ~after.solverRunning /\ after.solverTimers = 0

\* A running solver that has to guess, with hidden cells but no border cell.
C37_Witness ==
    /\ HasToGuess
    /\ solverRunning
    /\ BorderCells = {}
    /\ Cardinality(HiddenCells(board)) >= 2

\* C38 as claimed, on every reachable board: findConstraintMoves returns a
\* move exactly if findBasicMoves does, findTankMoves returns none where
\* findBasicMoves returns none, and the strategy of findBestMove's move is
\* never "Constraint Solving" nor "Tank Solver".
C38_StagesRedundantOnEveryBoard ==
    /\ findConstraintMoves(Cur).action # "none" <=> findBasicMoves(Cur).action # "none"
    /\ findBasicMoves(Cur).action = "none" => findTankMoves(Cur).action = "none"
    /\ findBestMove(Cur).strategy \in {"Basic Logic", "Pattern Recognition", "none"}

\* C38 amended: the same on every board of a game that is not lost (the
\* boards solverStep runs the solver on are among them), and on every
\* board, lost ones included, for findConstraintMoves against findBasicMoves.
C38_StagesRedundantUnlessLost ==
    /\ findConstraintMoves(Cur).action # "none" <=> findBasicMoves(Cur).action # "none"
    /\ gameState # "lost" =>
          /\ findBasicMoves(Cur).action = "none" => findTankMoves(Cur).action = "none"
          /\ findBestMove(Cur).strategy \in {"Basic Logic", "Pattern Recognition", "none"}

\* A game in progress with several constraints, the first of them undecided,
\* where both deductive strategies find a move.
C38_Witness ==
    /\ gameState = "playing"
    /\ Len(buildConstraints(Cur)) >= 2
    /\ buildConstraints(Cur)[1].mineCount \notin {0, Len(buildConstraints(Cur)[1].cells)}
    /\ findBasicMoves(Cur).action # "none"
    /\ findConstraintMoves(Cur).action # "none"

\* C39: the player-name modal is open only in a won game, and a step of the
\* running solver that wins the game does not open it: the win is counted in
\* solverStats (gamesPlayed and gamesWon each grow by one) instead.
C39_SolverWinOpensNoModal ==
    /\ modalOpen => gameState = "won"
    /\ solverRunning /\ ~Terminal(gameState) =>
          \A m \in Draws(Cur, Centre[1], Centre[2]) : \A guessMove \in Guesses(Cur) :
              LET after == solverStep(Cur, m, guessMove)
              IN  after.gameState = "won" =>
                      /\ ~after.modalOpen
                      /\ after.solverStats.gamesWon = solverStats.gamesWon + 1
                      /\ after.solverStats.gamesPlayed = solverStats.gamesPlayed + 1

\* C40: the handle solverInterval is held exactly while solverRunning is true,
\* at most one interval of startSolver is live at a time and it is the one
\* whose handle is held, and the Start Solver button is disabled exactly
\* during a run, so startSolver is accepted only while no run is active and
\* no interval is left live after stopSolver.
C40_OneIntervalWhileRunning ==
    /\ solverInterval <=> solverRunning
    /\ solverTimers = IF solverRunning THEN 1 ELSE 0
    /\ startBtnDisabled <=> solverRunning
    /\ ENABLED StartClick => ~solverRunning /\ solverTimers = 0

\* A run in progress on an opened board with the Start Solver button
\* disabled; a startSolver accepted here would leave two intervals live.
C40_Witness ==
    /\ solverRunning /\ solverInterval /\ startBtnDisabled
    /\ gameState = "playing"
    /\ \E cell \in DOMAIN board : board[cell].isRevealed
    /\ startSolver(Cur).solverTimers = 2
    /\ ~ENABLED StartClick

====
